---- MODULE Spec2Model ----
(***************************************************************************)
(* Model of the TikTok account warmer: the CLI entry point, the            *)
(* AccountWarmer orchestrator (initialize, runAll), and the four mass      *)
(* operations (massWarmAccounts, massUpdateProfiles, massComment,          *)
(* massLikeComment) with their per-session units of work.                  *)
(*                                                                         *)
(* Control is single threaded JavaScript: an action is the code that runs  *)
(* between two awaits.  The transport behind TikTokClient.makeRequest and  *)
(* the file system are the environment: a client call or a file read       *)
(* either resolves or rejects with one of ErrMsgs.  randomDelay never      *)
(* rejects.  Durations are not part of the state, the pause of a watch     *)
(* iteration excepted; which delay was awaited is.                         *)
(*                                                                         *)
(* Math.random() is a draw r of Random, standing for r / RandomSteps, and  *)
(* the arithmetic on it is done on integers as the code does it on         *)
(* numbers.  The functions of humanization.js and the methods of           *)
(* TikTokClient are also called on their own (SpecHumanization,            *)
(* SpecClient), as are the methods of AccountManager (SpecAccounts).       *)
(***************************************************************************)
EXTENDS Integers, Sequences, FiniteSets, TLC

\* ------------------------------------------------------------------ bounds
MaxClients == 3
MaxComments == 2
MaxAccounts == 2
MaxCalls == 2
RandomSteps == 4
MaxInt == 3
MaxItems == 3
MaxDuration == 3

\* ------------------------------------------------------------------ values
Null == "<null>"
NoError == "<none>"
NoId == <<>>
UndefinedUrl == <<"<undefined>">>
NullUrl == <<"<null>">>
\* a numeric key that is missing from the configuration
NoNumber == -1
ErrMsgs == {"timeout", "forbidden"}

ErrNoAccounts == "No valid accounts found. Please check your config.json"
ErrLoadConfig == "Failed to load config"
ErrNoVideoId == "No valid video ID provided"
ErrNoCommentId == "No comment ID provided"
ErrNotIterable == "config.comments is not iterable"
ErrNullEntry == "Cannot read properties of null"

\* JS truthiness of a string-valued field: a missing key and "" are both falsy.
Falsy(v) == v = ""

\* ---------------------------------------------------------------- accounts
Names == <<"alice", "bob", "carol", "dave", "erin", "frank">>

Account(name, sid, ua) ==
  [username |-> name, sessionId |-> sid, userAgent |-> ua, msToken |-> "",
   cookies |-> <<>>]

ValidAccount(k) == Account(Names[k], "sid", "UA")
GhostAccount == Account("ghost", "sid", "")
NoNameAccount == Account("", "sid", "UA")
NoSessionAccount == Account("nosid", "", "UA")
\* the session id is given in cookies.sessionid only
CookieAccount ==
  [Account("carol", "", "UA") EXCEPT !.cookies = << <<"sessionid", "sid">> >>]
\* a second account with the username of ValidAccount(1)
TwinAccount == Account(Names[1], "sid9", "UA")

CookieValue(cookies, key) ==
  IF \E n \in 1..Len(cookies) : cookies[n][1] = key
  THEN cookies[CHOOSE n \in 1..Len(cookies) : cookies[n][1] = key][2]
  ELSE ""

TikTokClient(account) ==
  [account |-> account,
   userAgent |-> account.userAgent,
   cookies |-> account.cookies,
   sessionId |-> IF ~Falsy(account.sessionId) THEN account.sessionId
                 ELSE CookieValue(account.cookies, "sessionid"),
   msToken |-> IF ~Falsy(account.msToken) THEN account.msToken
               ELSE CookieValue(account.cookies, "msToken")]

RequiredFields == <<"username", "sessionId", "userAgent">>

validateAccount(account) ==
  \A n \in 1..Len(RequiredFields) : ~Falsy(account[RequiredFields[n]])

\* mutant: the filter is missing
getValidAccountsUnfiltered(accounts) == accounts

getValidAccounts(accounts) == SelectSeq(accounts, validateAccount)

createClients(validAccounts) ==
  [n \in 1..Len(validAccounts) |-> TikTokClient(validAccounts[n])]

\* ------------------------------------------------------------ video ids
VideoMarker == <<"/", "v", "i", "d", "e", "o", "/">>
Digits == {"0", "1", "2", "3", "4", "5", "6", "7", "8", "9"}

MarkerAt(url, p) ==
  /\ p + Len(VideoMarker) - 1 <= Len(url)
  /\ \A n \in 1..Len(VideoMarker) : url[p + n - 1] = VideoMarker[n]

\* mutant: the regular expression is /\/video\/(\d*)/
MatchAtAnyMarker(url, p) == MarkerAt(url, p)

\* the regular expression /\/video\/(\d+)/ matches at p
MatchAt(url, p) ==
  /\ MarkerAt(url, p)
  /\ p + Len(VideoMarker) <= Len(url)
  /\ url[p + Len(VideoMarker)] \in Digits

RECURSIVE DigitRun(_, _)
DigitRun(url, p) ==
  IF p <= Len(url) /\ url[p] \in Digits
  THEN <<url[p]>> \o DigitRun(url, p + 1)
  ELSE <<>>

\* url.match on undefined or null throws a TypeError, which the catch block
\* turns into null
extractVideoId(url) ==
  IF url \in {UndefinedUrl, NullUrl} THEN NoId
  ELSE IF \E p \in 1..Len(url) : MatchAt(url, p)
       THEN LET p == CHOOSE q \in 1..Len(url) :
                       MatchAt(url, q) /\ \A r \in 1..(q - 1) : ~MatchAt(url, r)
            IN DigitRun(url, p + Len(VideoMarker))
       ELSE NoId

\* mutant: the URL is preferred over the configured id
ResolveVideoIdUrlFirst(cfg) ==
  IF extractVideoId(cfg.videoUrl) # NoId THEN extractVideoId(cfg.videoUrl)
  ELSE cfg.videoId

ResolveVideoId(cfg) ==
  IF cfg.videoId # NoId THEN cfg.videoId ELSE extractVideoId(cfg.videoUrl)

\* ------------------------------------------------------------ shuffleArray
\* mutant: the element at a is overwritten and not moved to b
SwapOverwrites(s, a, b) == [s EXCEPT ![a] = s[b]]

\* [shuffled[i], shuffled[j]] = [shuffled[j], shuffled[i]]
Swap(s, a, b) == [s EXCEPT ![a] = s[b], ![b] = s[a]]

\* Fisher-Yates for i = len-1 down to 1 (0-based), j = floor(random * (i + 1)).
\* Here k is the 1-based position i + 1 and draws[k] the 1-based j + 1.
RECURSIVE ShuffleFrom(_, _, _)
ShuffleFrom(s, k, draws) ==
  IF k <= 1 THEN s ELSE ShuffleFrom(Swap(s, k, draws[k]), k - 1, draws)

DrawSets(n) == {d \in [1..n -> 1..(IF n = 0 THEN 1 ELSE n)] : \A k \in 1..n : d[k] <= k}

shuffleArray(array, draws) == ShuffleFrom(array, Len(array), draws)

\* ----------------------------------------------------------- configuration
\* A JSON section that may be missing carries present = FALSE; a missing
\* string key is "", a missing id is NoId.
WarmingOn(s, v, q) ==
  [present |-> TRUE, enabled |-> TRUE,
   activities |->
     [scroll |-> [enabled |-> s, minScrolls |-> 1, maxScrolls |-> 2],
      videoWatch |-> [enabled |-> v, minVideos |-> 1, maxVideos |-> 2],
      search |-> [enabled |-> q, minSearches |-> 1, maxSearches |-> 2,
                  queries |-> <<"cats">>]],
   humanization |->
     [pauseProbability |-> NoNumber, pauseDurationMin |-> NoNumber,
      pauseDurationMax |-> NoNumber]]
WarmingOff == [WarmingOn(FALSE, FALSE, FALSE) EXCEPT !.enabled = FALSE]
WarmingAbsent == [WarmingOff EXCEPT !.present = FALSE]

ProfileOn(a, b) ==
  [present |-> TRUE, enabled |-> TRUE, updateAvatar |-> a, updateBio |-> b,
   bioLines |-> <<>>]
ProfileOff == [ProfileOn(FALSE, FALSE) EXCEPT !.enabled = FALSE]
ProfileAbsent == [ProfileOff EXCEPT !.present = FALSE]

CommentingOn(vid, url, has, list, rnd) ==
  [present |-> TRUE, enabled |-> TRUE, videoId |-> vid, videoUrl |-> url,
   hasComments |-> has, comments |-> list, randomizeOrder |-> rnd]
CommentingOff ==
  [CommentingOn(NoId, UndefinedUrl, TRUE, <<>>, FALSE) EXCEPT !.enabled = FALSE]
CommentingAbsent == [CommentingOff EXCEPT !.present = FALSE]

LikingOn(cid) == [present |-> TRUE, enabled |-> TRUE, commentId |-> cid]
LikingOff == [LikingOn("") EXCEPT !.enabled = FALSE]
LikingAbsent == [LikingOff EXCEPT !.present = FALSE]

MassActions(c, l) == [present |-> TRUE, commenting |-> c, commentLiking |-> l]
MassActionsAbsent ==
  [present |-> FALSE, commenting |-> CommentingAbsent, commentLiking |-> LikingAbsent]

NoConfig ==
  [readable |-> FALSE, hasAccounts |-> FALSE, accounts |-> <<>>,
   warming |-> WarmingAbsent, profile |-> ProfileAbsent,
   massActions |-> MassActionsAbsent]

\* sample inputs
UrlHost == <<"t", ".", "c", "o", "/", "@", "u">>
UrlGood == UrlHost \o VideoMarker \o <<"1", "2", "3">>
UrlNoDigits == UrlHost \o VideoMarker \o <<"x">>
UrlSamples == {UndefinedUrl, UrlGood, UrlNoDigits}
UrlTwoMarkers == UrlHost \o VideoMarker \o <<"x">> \o VideoMarker \o <<"4", "5">>
UrlTwoIds == UrlHost \o VideoMarker \o <<"1", "2">> \o VideoMarker \o <<"3", "4">>
UrlQuery == UrlHost \o VideoMarker \o <<"1", "2", "3", "?", "9">>
UrlMarkerLast == UrlHost \o VideoMarker
UrlUpperCase == UrlHost \o <<"/", "V", "i", "d", "e", "o", "/", "7">>
UrlEmpty == <<>>
UrlEdgeSamples ==
  {NullUrl, UrlTwoMarkers, UrlTwoIds, UrlQuery, UrlMarkerLast, UrlUpperCase, UrlEmpty}
VideoIdSamples == {NoId, <<"7", "7">>}
CommentTexts == <<"nice", "wow", "lol", "cool", "great">>
CommentLists == {SubSeq(CommentTexts, 1, m) : m \in 0..MaxComments}
CommentIdSamples == {"", "c42", "c7"}

CommentingInputs ==
  {CommentingOn(vid, url, TRUE, list, rnd) :
     vid \in VideoIdSamples, url \in UrlSamples,
     list \in CommentLists, rnd \in BOOLEAN}
  \cup {CommentingOn(<<"7", "7">>, UndefinedUrl, FALSE, <<>>, FALSE)}
  \cup {CommentingOn(NoId, url, TRUE, <<"nice">>, FALSE) : url \in UrlEdgeSamples}
LikingInputs == {LikingOn(cid) : cid \in CommentIdSamples}
\* a configured bound of 0, one activity at a time
ZeroBoundInputs ==
  {[WarmingOn(TRUE, FALSE, FALSE) EXCEPT
      !.activities.scroll.minScrolls = 0, !.activities.scroll.maxScrolls = 1],
   [WarmingOn(FALSE, TRUE, FALSE) EXCEPT
      !.activities.videoWatch.minVideos = 0, !.activities.videoWatch.maxVideos = 1],
   [WarmingOn(FALSE, FALSE, TRUE) EXCEPT
      !.activities.search.minSearches = 0, !.activities.search.maxSearches = 0]}
\* one video per session, with a configured pauseProbability (in tenths) and
\* configured pause durations
PauseInputs ==
  {[WarmingOn(FALSE, TRUE, FALSE) EXCEPT
      !.activities.videoWatch.maxVideos = 1,
      !.humanization = [pauseProbability |-> pr, pauseDurationMin |-> 200,
                        pauseDurationMax |-> 300]] : pr \in {0, 5, 10}}
WarmingInputs ==
  {WarmingOn(s, v, q) : s \in BOOLEAN, v \in BOOLEAN, q \in BOOLEAN}
  \cup {[WarmingOn(FALSE, FALSE, TRUE) EXCEPT
           !.activities.search.queries = <<"cats", "dogs">>]}
  \cup ZeroBoundInputs \cup PauseInputs
ProfileInputs ==
  {ProfileOn(a, b) : a \in BOOLEAN, b \in BOOLEAN}
  \cup {[ProfileOn(FALSE, TRUE) EXCEPT !.bioLines = <<"from config">>]}

\* what the file system holds when massUpdateProfiles loads its candidates
AvatarDirs ==
  {[ok |-> FALSE, files |-> <<>>],
   [ok |-> TRUE, files |-> <<[name |-> "notes", ext |-> ".txt"]>>],
   [ok |-> TRUE, files |-> <<[name |-> "a1", ext |-> ".PNG"],
                             [name |-> "notes", ext |-> ".txt"]>>]}
BioFiles ==
  {[ok |-> FALSE, lines |-> <<>>],
   [ok |-> TRUE, lines |-> <<"", "hello">>]}

\* client lists handed to a mass operation called as a library function
ClientLists ==
  {[k \in 1..n |-> TikTokClient(ValidAccount(k))] : n \in 0..MaxClients}

\* configuration files the CLI may find
CliAccounts ==
  {<<>>, <<GhostAccount>>, <<ValidAccount(1)>>,
   <<ValidAccount(1), GhostAccount, ValidAccount(2)>>,
   <<NoNameAccount, ValidAccount(2), NoSessionAccount, CookieAccount, ValidAccount(1)>>}
\* every activity enabled, one scroll, one video and one search per session
CliWarmingOn ==
  [WarmingOn(TRUE, TRUE, TRUE) EXCEPT
     !.activities.scroll.maxScrolls = 1,
     !.activities.videoWatch.maxVideos = 1,
     !.activities.search.maxSearches = 1]
CliWarming == {WarmingAbsent, WarmingOff, CliWarmingOn}
CliProfile == {ProfileAbsent, ProfileOff, ProfileOn(TRUE, TRUE)}
CliCommenting ==
  {CommentingAbsent, CommentingOff,
   CommentingOn(NoId, UrlGood, TRUE, <<"nice">>, FALSE),
   CommentingOn(NoId, UrlNoDigits, TRUE, <<"nice">>, FALSE)}
CliLiking == {LikingAbsent, LikingOff, LikingOn("c42"), LikingOn("")}
CliMassActions ==
  {MassActionsAbsent} \cup {MassActions(c, l) : c \in CliCommenting, l \in CliLiking}

ConfigFiles ==
  {NoConfig}
  \cup {[readable |-> TRUE, hasAccounts |-> TRUE, accounts |-> a,
         warming |-> w, profile |-> p, massActions |-> m] :
          a \in CliAccounts, w \in CliWarming, p \in CliProfile,
          m \in CliMassActions}
  \cup {[readable |-> TRUE, hasAccounts |-> FALSE, accounts |-> <<>>,
         warming |-> WarmingOn(TRUE, FALSE, TRUE), profile |-> ProfileAbsent,
         massActions |-> MassActionsAbsent]}

\* AccountManager.getConfigSection / isFeatureEnabled
getConfigSection(cfg, section) == cfg[section]

isFeatureEnabled(cfg, section, feature) ==
  LET configSection == getConfigSection(cfg, section) IN
  IF ~configSection.present THEN FALSE
  ELSE IF feature # "" THEN configSection[feature].present /\ configSection[feature].enabled
  ELSE configSection.enabled

\* ------------------------------------------------------------------- state
VARIABLES
  cli,        \* CLI entry point: "lib" | "new" | "initialized" | "initThrew" | "exited"
  exitCode,   \* process exit code, -1 while running
  fatal,      \* message of the error the CLI caught, NoError if none
  config,     \* AccountManager.config
  accounts,   \* AccountManager.accounts
  ret,        \* the last method or function called as a library function, and its result
  clients,    \* AccountWarmer.clients / the clients argument of a mass operation
  rpc,        \* runAll: "idle" | "check" | "delay" | "call" | "returned" | "threw"
  phase,      \* runAll: 1-based position in PhaseOrder of the phase being considered
  results,    \* runAll's local results object
  delivered,  \* what runAll's caller received: its return value (or nothing)
  phaseLog,   \* mass operations runAll has started, in order
  phaseDelays,\* inter-phase delays awaited
  op,         \* mass operation in progress: "none" | "warm" | "profile" | "comment" | "like"
  opcfg,      \* its config argument
  mpc,        \* "idle" | "entry" | "head" | "work" | "delay" | "returned" | "threw"
  i,          \* loop index (0-based, as in the code)
  opResults,  \* its local results array
  opError,    \* message of the error it threw
  videoId, comments, commentId, avatars, bios,   \* locals of the mass operations
  upc,        \* position inside a multi-step unit of work
  unit,       \* locals of the unit of work in progress (updateProfile)
  warm,       \* locals of the warming session in progress and what it has done so far
  inflight,   \* sessions whose unit of work has begun and not yet settled
  calls,      \* client calls issued by the mass operation, in order; for
              \* massUpdateProfiles also its loads and the waits of updateProfile
  gaps,       \* sessions after which an inter-session delay was awaited
  thrown      \* per processed session: the message its unit of work threw, or NoError

cliVars == <<cli, exitCode, fatal, config>>
amVars == <<accounts, ret>>
runVars == <<rpc, phase, results, delivered, phaseLog, phaseDelays>>
opVars == <<op, opcfg, mpc, i, opResults, opError, videoId, comments, commentId,
            avatars, bios, upc, unit, warm, inflight, calls, gaps, thrown>>
vars == <<cliVars, amVars, clients, runVars, opVars>>

\* no AccountManager method has been called as a library function
NoRet ==
  [n |-> 0, fn |-> "none", index |-> 0, username |-> "", updates |-> <<>>,
   before |-> <<>>, value |-> FALSE, list |-> <<>>]

\* a slot of runAll's results object: null, or the report of a phase
NullSlot == [isNull |-> TRUE, report |-> <<>>]
Report(r) == [isNull |-> FALSE, report |-> r]

NoResults ==
  [warming |-> NullSlot, profileUpdates |-> NullSlot, massCommenting |-> NullSlot,
   massCommentLiking |-> NullSlot]

NoUnit == [avatarPath |-> "", bioText |-> "", avatar |-> Null, bio |-> Null]

\* WarmingActivities: no session begun
NoWarm ==
  [pattern |-> <<>>, videoCount |-> 0, watched |-> 0, searchCount |-> 0,
   searched |-> 0, trail |-> <<>>,
   pauseDraw |-> NoNumber, paused |-> FALSE, pauseDuration |-> 0, pauseDelay |-> 0]

OpIdle ==
  /\ op = "none" /\ opcfg = NoConfig /\ mpc = "idle" /\ i = 0
  /\ opResults = <<>> /\ opError = NoError
  /\ videoId = NoId /\ comments = <<>> /\ commentId = ""
  /\ avatars = <<>> /\ bios = <<>> /\ upc = "none" /\ unit = NoUnit /\ warm = NoWarm
  /\ inflight = {} /\ calls = <<>> /\ gaps = {} /\ thrown = <<>>

RunIdle ==
  /\ rpc = "idle" /\ phase = 0 /\ results = NoResults /\ delivered = NoResults
  /\ phaseLog = <<>> /\ phaseDelays = 0

\* the locals of a mass operation before it has run
FreshFrame ==
  /\ i' = 0 /\ opResults' = <<>> /\ opError' = NoError
  /\ videoId' = NoId /\ comments' = <<>> /\ commentId' = ""
  /\ avatars' = <<>> /\ bios' = <<>> /\ upc' = "none" /\ unit' = NoUnit /\ warm' = NoWarm
  /\ inflight' = {} /\ calls' = <<>> /\ gaps' = {} /\ thrown' = <<>>

\* a mass operation is called with cfg
CallOp(name, cfg) ==
  /\ op' = name /\ opcfg' = cfg /\ mpc' = "entry"
  /\ FreshFrame

\* control left the mass operation: its frame is gone
LeaveOp ==
  /\ op' = "none" /\ opcfg' = NoConfig /\ mpc' = "idle"
  /\ FreshFrame

N == Len(clients)
Username(k) == clients[k + 1].account.username

\* ------------------------------------------------------- TikTokClient calls
IsExtraCookie(entry) == entry[1] \notin {"sessionid", "msToken"}

getCookieString(c) ==
  (IF ~Falsy(c.sessionId) THEN << <<"sessionid", c.sessionId>> >> ELSE <<>>)
  \o (IF ~Falsy(c.msToken) THEN << <<"msToken", c.msToken>> >> ELSE <<>>)
  \o SelectSeq(c.cookies, IsExtraCookie)

\* mutant: options.method is used as it is, without the default
makeRequestNoDefaultMethod(c, endpoint, params, method, contentType, body) ==
  [url |-> [path |-> endpoint, query |-> params],
   method |-> method,
   headers |-> [UserAgent |-> c.userAgent, Cookie |-> getCookieString(c),
                Referer |-> "https://www.tiktok.com/",
                Origin |-> "https://www.tiktok.com",
                ContentType |-> contentType],
   body |-> body]

\* the request descriptor the placeholder transport resolves with.  method,
\* contentType and body are options.method, options.headers['Content-Type']
\* and options.body: "" and Null stand for an option that is not given.
\* The query lists the entries of params in the order of Object.entries.
makeRequest(c, endpoint, params, method, contentType, body) ==
  [url |-> [path |-> endpoint, query |-> params],
   method |-> IF Falsy(method) THEN "GET" ELSE method,
   headers |-> [UserAgent |-> c.userAgent, Cookie |-> getCookieString(c),
                Referer |-> "https://www.tiktok.com/",
                Origin |-> "https://www.tiktok.com",
                ContentType |-> contentType],
   body |-> body]

getUserProfile(c, username) ==
  makeRequest(c, "/user/detail/", << <<"uniqueId", username>> >>, "", "", Null)

postComment(c, vid, text) ==
  makeRequest(c, "/comment/publish/", << <<"aweme_id", vid>> >>, "POST",
              "application/x-www-form-urlencoded", [text |-> text, aweme_id |-> vid])

likeComment(c, cid, action) ==
  makeRequest(c, "/comment/digg/", << <<"comment_id", cid>>, <<"action", action>> >>,
              "POST", "", Null)

likeVideo(c, vid, action) ==
  makeRequest(c, "/commit/item/digg/", << <<"aweme_id", vid>>, <<"type", action>> >>,
              "POST", "", Null)

followUser(c, userId, action) ==
  makeRequest(c, "/commit/follow/user/", << <<"user_id", userId>>, <<"type", action>> >>,
              "POST", "", Null)

getComments(c, vid, cursor) ==
  makeRequest(c, "/comment/list/",
              << <<"aweme_id", vid>>, <<"cursor", cursor>>, <<"count", 20>> >>,
              "", "", Null)

updateProfile(c, profileData) ==
  makeRequest(c, "/user/profile/update/", <<>>, "POST", "application/json", profileData)

uploadAvatar(c, imageData) ==
  makeRequest(c, "/user/avatar/update/", <<>>, "POST", "multipart/form-data", imageData)

search(c, query, offset) ==
  makeRequest(c, "/search/general/full/",
              << <<"keyword", query>>, <<"offset", offset>>, <<"count", 12>> >>,
              "", "", Null)

getFeed(c) ==
  makeRequest(c, "/recommend/item_list/", << <<"count", 30>> >>, "", "", Null)

Call(k, kind, target, arg) == [session |-> k, kind |-> kind, target |-> target, arg |-> arg]

\* ------------------------------------------- the loop shared by the mass ops
\* mutant: the catch block records a fixed text instead of error.message
FailedResultGenericMessage(k, msg) ==
  [account |-> Username(k), success |-> FALSE, error |-> "Unknown error"]

\* catch block: the failed Result of session k
FailedResult(k, msg) == [account |-> Username(k), success |-> FALSE, error |-> msg]

\* the unit of work of session i begins
StartUnit == inflight' = inflight \cup {i}

\* mutant: the unit of work is not awaited, the loop goes on while it runs
SettleOkNotAwaited(r) ==
  /\ opResults' = Append(opResults, r)
  /\ thrown' = Append(thrown, NoError)
  /\ inflight' = inflight
  /\ IF i < N - 1 THEN mpc' = "delay" /\ i' = i
                  ELSE mpc' = "head" /\ i' = i + 1

\* mutant: the delay is awaited after every session, the last included
SettleOkDelayAlways(r) ==
  /\ opResults' = Append(opResults, r)
  /\ thrown' = Append(thrown, NoError)
  /\ inflight' = inflight \ {i}
  /\ mpc' = "delay" /\ i' = i

\* the unit of work resolved: push the Result, then the inter-session delay
\* unless this was the last session
SettleOk(r) ==
  /\ opResults' = Append(opResults, r)
  /\ thrown' = Append(thrown, NoError)
  /\ inflight' = inflight \ {i}
  /\ IF i < N - 1 THEN mpc' = "delay" /\ i' = i
                  ELSE mpc' = "head" /\ i' = i + 1

\* mutant: the failed Result is put in front of the report
SettleFailUnshift(msg) ==
  /\ opResults' = <<FailedResult(i, msg)>> \o opResults
  /\ thrown' = <<msg>> \o thrown
  /\ inflight' = inflight \ {i}
  /\ mpc' = "head"
  /\ i' = i + 1

\* the unit of work rejected with msg: control jumps to the catch block
SettleFail(msg) ==
  /\ opResults' = Append(opResults, FailedResult(i, msg))
  /\ thrown' = Append(thrown, msg)
  /\ inflight' = inflight \ {i}
  /\ mpc' = "head"
  /\ i' = i + 1

\* mutant: after the delay the loop works on the same session again
DelayElapsedSameSession(name) ==
  /\ op = name /\ mpc = "delay"
  /\ gaps' = gaps \cup {i}
  /\ i' = i
  /\ mpc' = "head"
  /\ UNCHANGED <<cliVars, amVars, clients, runVars, op, opcfg, opResults, opError, videoId,
                 comments, commentId, avatars, bios, upc, unit, warm, inflight, calls, thrown>>

\* the inter-session delay elapsed: next iteration
DelayElapsed(name) ==
  /\ op = name /\ mpc = "delay"
  /\ gaps' = gaps \cup {i}
  /\ i' = i + 1
  /\ mpc' = "head"
  /\ UNCHANGED <<cliVars, amVars, clients, runVars, op, opcfg, opResults, opError, videoId,
                 comments, commentId, avatars, bios, upc, unit, warm, inflight, calls, thrown>>

\* loop exit: the operation returns its results
LoopExit ==
  /\ mpc' = "returned"
  /\ UNCHANGED <<i, inflight, calls, upc, unit, warm>>

\* ------------------------------------------------ InteractionModule.massComment
\* mutant: the local list is config.comments itself, so what is written to the
\* local list is written to the configuration
AliasOf(source, written) == written

\* let comments = [...config.comments]: the local list is a copy, so the
\* source keeps its elements whatever is written to the local list
SpreadOf(source, written) == source

CommentEntry ==
  /\ op = "comment" /\ mpc = "entry"
  /\ LET vid == ResolveVideoId(opcfg) IN
     IF vid = NoId
     THEN /\ mpc' = "threw" /\ opError' = ErrNoVideoId
          /\ UNCHANGED <<videoId, comments, opcfg>>
     ELSE IF ~opcfg.hasComments
     THEN /\ mpc' = "threw" /\ opError' = ErrNotIterable
          /\ videoId' = vid
          /\ UNCHANGED <<comments, opcfg>>
     ELSE /\ videoId' = vid
          /\ \E draws \in DrawSets(Len(opcfg.comments)) :
               comments' = IF opcfg.randomizeOrder
                           THEN shuffleArray(opcfg.comments, draws)
                           ELSE opcfg.comments
          /\ opcfg' = [opcfg EXCEPT !.comments = SpreadOf(opcfg.comments, comments')]
          /\ mpc' = "head"
          /\ UNCHANGED opError
  /\ UNCHANGED <<cliVars, amVars, clients, runVars, op, i, opResults, commentId,
                 avatars, bios, upc, unit, warm, inflight, calls, gaps, thrown>>

\* mutant: the next comment is the one after the last comment posted
CommentForNextUnused(k) ==
  LET posted == Cardinality({n \in 1..Len(opResults) : opResults[n].success}) IN
  IF Len(comments) = 0 THEN Null ELSE comments[(posted % Len(comments)) + 1]

\* comments[i % comments.length]; with no comments the index is NaN
CommentFor(k) ==
  IF Len(comments) = 0 THEN Null ELSE comments[(k % Len(comments)) + 1]

CommentHead ==
  /\ op = "comment" /\ mpc = "head"
  /\ IF i < N
     THEN /\ StartUnit
          /\ calls' = Append(calls, Call(i, "postComment", videoId, CommentFor(i)))
          /\ mpc' = "work"
          /\ UNCHANGED <<i, upc, unit, warm>>
     ELSE LoopExit
  /\ UNCHANGED <<cliVars, amVars, clients, runVars, op, opcfg, opResults, opError, videoId,
                 comments, commentId, avatars, bios, gaps, thrown>>

CommentOk ==
  /\ op = "comment" /\ mpc = "work"
  /\ SettleOk([account |-> Username(i), success |-> TRUE, comment |-> CommentFor(i),
               result |-> postComment(clients[i + 1], videoId, CommentFor(i))])
  /\ UNCHANGED <<cliVars, amVars, clients, runVars, op, opcfg, opError, videoId, comments,
                 commentId, avatars, bios, upc, unit, warm, calls, gaps>>

CommentFail ==
  /\ op = "comment" /\ mpc = "work"
  /\ \E msg \in ErrMsgs : SettleFail(msg)
  /\ UNCHANGED <<cliVars, amVars, clients, runVars, op, opcfg, opError, videoId, comments,
                 commentId, avatars, bios, upc, unit, warm, calls, gaps>>

CommentDelay == DelayElapsed("comment")

\* -------------------------------------------- InteractionModule.massLikeComment
\* mutant: the test of config.commentId is missing
LikeEntryUnchecked ==
  /\ op = "like" /\ mpc = "entry"
  /\ commentId' = opcfg.commentId
  /\ mpc' = "head"
  /\ UNCHANGED <<cliVars, amVars, clients, runVars, op, opcfg, i, opResults, opError, videoId,
                 comments, avatars, bios, upc, unit, warm, inflight, calls, gaps, thrown>>

LikeEntry ==
  /\ op = "like" /\ mpc = "entry"
  /\ IF Falsy(opcfg.commentId)
     THEN /\ mpc' = "threw" /\ opError' = ErrNoCommentId
          /\ UNCHANGED commentId
     ELSE /\ commentId' = opcfg.commentId
          /\ mpc' = "head"
          /\ UNCHANGED opError
  /\ UNCHANGED <<cliVars, amVars, clients, runVars, op, opcfg, i, opResults, videoId, comments,
                 avatars, bios, upc, unit, warm, inflight, calls, gaps, thrown>>

LikeHead ==
  /\ op = "like" /\ mpc = "head"
  /\ IF i < N
     THEN /\ StartUnit
          /\ calls' = Append(calls, Call(i, "likeComment", commentId, 1))
          /\ mpc' = "work"
          /\ UNCHANGED <<i, upc, unit, warm>>
     ELSE LoopExit
  /\ UNCHANGED <<cliVars, amVars, clients, runVars, op, opcfg, opResults, opError, videoId,
                 comments, commentId, avatars, bios, gaps, thrown>>

LikeOk ==
  /\ op = "like" /\ mpc = "work"
  /\ SettleOk([account |-> Username(i), success |-> TRUE,
               result |-> likeComment(clients[i + 1], commentId, 1)])
  /\ UNCHANGED <<cliVars, amVars, clients, runVars, op, opcfg, opError, videoId, comments,
                 commentId, avatars, bios, upc, unit, warm, calls, gaps>>

LikeFail ==
  /\ op = "like" /\ mpc = "work"
  /\ \E msg \in ErrMsgs : SettleFail(msg)
  /\ UNCHANGED <<cliVars, amVars, clients, runVars, op, opcfg, opError, videoId, comments,
                 commentId, avatars, bios, upc, unit, warm, calls, gaps>>

LikeDelay == DelayElapsed("like")

\* ------------------------------------------------------------ humanization
\* Math.random() takes the values r / RandomSteps, r \in Random
Random == 0..(RandomSteps - 1)

\* Math.floor(num / den) for den > 0
Floor(num, den) == num \div den

\* mutant: the span is max + 1 instead of max - min + 1
randomIntSpanFromZero(min, max, r) == Floor(r * (max + 1), RandomSteps) + min

\* Math.floor(Math.random() * (max - min + 1)) + min on the draw r
randomIntOn(min, max, r) == Floor(r * (max - min + 1), RandomSteps) + min

\* the values randomInt(min, max) can take
randomInt(min, max) == {randomIntOn(min, max, r) : r \in Random}

\* randomDelay: the duration handed to setTimeout on the draw r
randomDelay(min, max, r) == Floor(r * (max - min + 1), RandomSteps) + min

\* array[Math.floor(Math.random() * array.length)] on the draw r; reading
\* index 0 of an empty array gives undefined, a missing string
randomChoiceOn(array, r) ==
  IF Len(array) = 0 THEN "" ELSE array[Floor(r * Len(array), RandomSteps) + 1]

\* the values randomChoice(array) can take
randomChoice(array) == {randomChoiceOn(array, r) : r \in Random}

\* Math.random() < probability on the draw r; probability is in tenths
shouldPerformAction(probability, r) == 10 * r < probability * RandomSteps

\* mutant: minWatchPercent is not added to the drawn percentage
generateWatchTimeNoOffset(videoDuration, minWatchPercent, maxWatchPercent, r) ==
  Floor(videoDuration * 1000 * (r * (maxWatchPercent - minWatchPercent)),
        8 * 10 * RandomSteps)

\* watchPercent = Math.random() * (max - min) + min;
\* Math.floor(videoDuration * 1000 * watchPercent).
\* videoDuration is in eighths of a second, the percentages are in tenths.
generateWatchTime(videoDuration, minWatchPercent, maxWatchPercent, r) ==
  Floor(videoDuration * 1000
          * (r * (maxWatchPercent - minWatchPercent) + minWatchPercent * RandomSteps),
        8 * 10 * RandomSteps)

\* the draws of one iteration of generateScrollPattern: the scroll amount, the
\* speed, the decision on a pause and the length of the pause (drawn only
\* when the pause is decided: 0 stands for no draw)
StepDraws ==
  {d \in [amount : Random, speed : Random, pause : Random, read : Random] :
     ~shouldPerformAction(3, d.pause) => d.read = 0}

\* mutant: the pause step is pushed before the scroll step
scrollStepPauseFirst(minSpeed, maxSpeed, d) ==
  (IF shouldPerformAction(3, d.pause)
   THEN <<[action |-> "pause", amount |-> 0,
           delay |-> Floor(d.read * 4000, RandomSteps) + 1000]>>
   ELSE <<>>)
  \o <<[action |-> "scroll", amount |-> Floor(d.amount * 500, RandomSteps) + 300,
        delay |-> Floor(d.speed * (maxSpeed - minSpeed), RandomSteps) + minSpeed]>>

\* one iteration of generateScrollPattern on the draws d: the scroll step,
\* then a pause step when Math.random() < 0.3; a pause has no amount (0)
scrollStep(minSpeed, maxSpeed, d) ==
  <<[action |-> "scroll", amount |-> Floor(d.amount * 500, RandomSteps) + 300,
     delay |-> Floor(d.speed * (maxSpeed - minSpeed), RandomSteps) + minSpeed]>>
  \o (IF shouldPerformAction(3, d.pause)
      THEN <<[action |-> "pause", amount |-> 0,
              delay |-> Floor(d.read * 4000, RandomSteps) + 1000]>>
      ELSE <<>>)

\* generateScrollPattern with its amounts and delays, on draws[k] for
\* iteration k
RECURSIVE scrollPatternFrom(_, _, _, _, _)
scrollPatternFrom(k, scrollCount, minSpeed, maxSpeed, draws) ==
  IF k > scrollCount THEN <<>>
  ELSE scrollStep(minSpeed, maxSpeed, draws[k])
       \o scrollPatternFrom(k + 1, scrollCount, minSpeed, maxSpeed, draws)

\* JS `value || fallback` on a number: 0 and a missing key give the fallback
OrDefault(value, fallback) == IF value \in {NoNumber, 0} THEN fallback ELSE value

\* -------------------------------------------- WarmingActivities.massWarmAccounts
\* No step of performWarmingSession rejects: feed and search failures are
\* caught where they happen and the delays never reject, so the catch block
\* of massWarmAccounts has no behaviour of its own here.
\* warm.trail lists what the session in progress has awaited so far, in order:
\*   "initialDelay" "delay1" "delay2"   the delays of performWarmingSession
\*   "scroll" "pause"                   the actions of the scroll pattern
\*   "getFeed" "feedFailed" "watch"     performVideoWatching
\*   "search" "searchFailed" "typing" "browse" "searchPause"   performSearch
Log(w, event) == [w EXCEPT !.trail = Append(@, event)]

\* warm.pauseDraw and warm.paused hold the draw made for the pause in the step
\* just taken and what it decided; warm.pauseDuration and warm.pauseDelay
\* hold the locals of the pause while it is awaited
NoPause(w) ==
  [w EXCEPT !.pauseDraw = NoNumber, !.paused = FALSE,
            !.pauseDuration = 0, !.pauseDelay = 0]

WarmEntry ==
  /\ op = "warm" /\ mpc = "entry"
  /\ mpc' = "head"
  /\ UNCHANGED <<cliVars, amVars, clients, runVars, op, opcfg, i, opResults, opError, videoId,
                 comments, commentId, avatars, bios, upc, unit, warm, inflight, calls,
                 gaps, thrown>>

WarmHead ==
  /\ op = "warm" /\ mpc = "head"
  /\ IF i < N
     THEN /\ StartUnit
          /\ mpc' = "work"
          /\ upc' = "initialDelay"
          /\ warm' = Log(NoWarm, "initialDelay")
          /\ UNCHANGED <<i, calls, unit>>
     ELSE LoopExit
  /\ UNCHANGED <<cliVars, amVars, clients, runVars, op, opcfg, opResults, opError, videoId,
                 comments, commentId, avatars, bios, gaps, thrown>>

WarmUnchanged ==
  UNCHANGED <<cliVars, amVars, clients, runVars, op, opcfg, mpc, i, opResults, opError,
              videoId, comments, commentId, avatars, bios, unit, inflight, gaps,
              thrown>>

\* mutant: every activity runs, whatever its flag
ActivityEnabledAlways(activity) == TRUE

\* this.activities.<name>?.enabled
ActivityEnabled(activity) == activity.enabled

\* mutant: the search activity is called where video watching should be
AfterSessionDelaySearchSecond(step) ==
  CASE step = "initialDelay" -> "scroll"
    [] step = "delay1" -> "search"
    [] step = "delay2" -> "watch"

\* performWarmingSession: the activity called after each of its delays
AfterSessionDelay(step) ==
  CASE step = "initialDelay" -> "scroll"
    [] step = "delay1" -> "watch"
    [] step = "delay2" -> "search"

\* performWarmingSession: the initial delay and the two delays between activities
WarmSessionDelay ==
  /\ op = "warm" /\ mpc = "work"
  /\ upc \in {"initialDelay", "delay1", "delay2"}
  /\ upc' = AfterSessionDelay(upc)
  /\ warm' = NoPause(warm)
  /\ UNCHANGED calls
  /\ WarmUnchanged

\* generateScrollPattern: scrollCount scrolls, each followed by a pause when
\* its draw of Math.random() is below 0.3
RECURSIVE ScrollPatternFrom(_, _, _)
ScrollPatternFrom(k, scrollCount, pauses) ==
  IF k > scrollCount THEN <<>>
  ELSE <<"scroll">> \o (IF pauses[k] THEN <<"pause">> ELSE <<>>)
       \o ScrollPatternFrom(k + 1, scrollCount, pauses)

generateScrollPattern(scrollCount, pauses) == ScrollPatternFrom(1, scrollCount, pauses)

performScrolling ==
  /\ op = "warm" /\ mpc = "work" /\ upc = "scroll"
  /\ LET scroll == opcfg.activities.scroll IN
     \/ /\ ~ActivityEnabled(scroll)
        /\ upc' = "delay1"
        /\ warm' = Log(warm, "delay1")
     \/ /\ ActivityEnabled(scroll)
        /\ \E scrollCount \in randomInt(OrDefault(scroll.minScrolls, 5),
                                        OrDefault(scroll.maxScrolls, 15)) :
           \E pauses \in [1..scrollCount -> BOOLEAN] :
             warm' = [warm EXCEPT !.pattern = generateScrollPattern(scrollCount, pauses)]
        /\ upc' = "pattern"
  /\ UNCHANGED calls
  /\ WarmUnchanged

\* the pattern is ready, or the timeout of one of its actions elapsed: the
\* next action's timeout is awaited, or performScrolling returns
executeScrollPattern ==
  /\ op = "warm" /\ mpc = "work" /\ upc \in {"pattern", "scrolling"}
  /\ IF warm.pattern = <<>>
     THEN /\ upc' = "delay1"
          /\ warm' = Log(warm, "delay1")
     ELSE /\ upc' = "scrolling"
          /\ warm' = [Log(warm, Head(warm.pattern)) EXCEPT !.pattern = Tail(warm.pattern)]
  /\ UNCHANGED calls
  /\ WarmUnchanged

performVideoWatching ==
  /\ op = "warm" /\ mpc = "work" /\ upc = "watch"
  /\ LET videoWatch == opcfg.activities.videoWatch IN
     IF ~ActivityEnabled(videoWatch)
     THEN /\ upc' = "delay2"
          /\ warm' = Log(warm, "delay2")
          /\ UNCHANGED calls
     ELSE /\ \E videoCount \in randomInt(OrDefault(videoWatch.minVideos, 3),
                                         OrDefault(videoWatch.maxVideos, 10)) :
               warm' = Log([warm EXCEPT !.videoCount = videoCount, !.watched = 0],
                           "getFeed")
          /\ calls' = Append(calls, Call(i, "getFeed", "", 30))
          /\ upc' = "feed"
  /\ WarmUnchanged

\* head of the watch loop: the wait of the next video, or the end of the
\* activity and the delay that follows it
watchLoop(w) ==
  IF w.watched < w.videoCount
  THEN [upc |-> "watchWait", warm |-> Log(w, "watch")]
  ELSE [upc |-> "delay2", warm |-> Log(w, "delay2")]

\* mutant: the catch block of getFeed gives up the activity
feedCatchReturns(w) == [upc |-> "delay2", warm |-> Log(Log(w, "feedFailed"), "delay2")]

\* catch block of getFeed: a warning, then the watch loop as usual
feedCatch(w) == watchLoop(Log(w, "feedFailed"))

FeedOk ==
  /\ op = "warm" /\ mpc = "work" /\ upc = "feed"
  /\ upc' = watchLoop(warm).upc
  /\ warm' = watchLoop(warm).warm
  /\ UNCHANGED calls
  /\ WarmUnchanged

FeedFail ==
  /\ op = "warm" /\ mpc = "work" /\ upc = "feed"
  /\ \E msg \in ErrMsgs :
       /\ upc' = feedCatch(warm).upc
       /\ warm' = feedCatch(warm).warm
  /\ UNCHANGED calls
  /\ WarmUnchanged

\* the awaits of one watch iteration, in program order; all but the first are
\* taken or not on a draw of shouldPerformAction
WatchWaits == <<"watchWait", "nextWait", "likeWait", "pauseWait">>
WaitRank(step) == CHOOSE n \in 1..Len(WatchWaits) : WatchWaits[n] = step

\* the probability, in tenths, of the draw that decides on a wait
WatchProbability(step) ==
  CASE step = "nextWait" -> 7
    [] step = "likeWait" -> 2
    [] step = "pauseWait" -> OrDefault(opcfg.humanization.pauseProbability, 3)

\* some draw decides for the wait, some draw decides against it
MayTake(step) == \E r \in Random : shouldPerformAction(WatchProbability(step), r)
MaySkip(step) == \E r \in Random : ~shouldPerformAction(WatchProbability(step), r)

\* the pause was decided on the draw r: its duration is drawn (r1), then the
\* delay that is awaited (r2)
drawPause(w, r, r1, r2) ==
  LET pauseDuration ==
        randomIntOn(OrDefault(opcfg.humanization.pauseDurationMin, 1000),
                    OrDefault(opcfg.humanization.pauseDurationMax, 5000), r1)
  IN [w EXCEPT !.pauseDraw = r, !.paused = TRUE,
               !.pauseDuration = pauseDuration,
               !.pauseDelay = randomDelay(pauseDuration, pauseDuration + 500, r2)]

\* a wait of the watch iteration elapsed: the draws of the waits after it are
\* made in turn until one is below its probability and that wait is awaited;
\* when none is, the next iteration begins
WatchStep ==
  /\ op = "warm" /\ mpc = "work"
  /\ \E n \in 1..Len(WatchWaits) : upc = WatchWaits[n]
  /\ LET rank == WaitRank(upc)
         last == Len(WatchWaits)
         nextIteration(w) == watchLoop([w EXCEPT !.watched = @ + 1])
     IN \/ \E n \in (rank + 1)..(last - 1) :
             /\ \A m \in (rank + 1)..(n - 1) : MaySkip(WatchWaits[m])
             /\ MayTake(WatchWaits[n])
             /\ upc' = WatchWaits[n]
             /\ warm' = NoPause(warm)
        \/ /\ rank < last
           /\ \A m \in (rank + 1)..(last - 1) : MaySkip(WatchWaits[m])
           /\ \E r \in Random :
                IF shouldPerformAction(WatchProbability(WatchWaits[last]), r)
                THEN /\ upc' = WatchWaits[last]
                     /\ \E r1 \in Random, r2 \in Random :
                          warm' = drawPause(warm, r, r1, r2)
                ELSE LET next ==
                           nextIteration([NoPause(warm) EXCEPT !.pauseDraw = r])
                     IN upc' = next.upc /\ warm' = next.warm
        \/ /\ rank = last
           /\ upc' = nextIteration(NoPause(warm)).upc
           /\ warm' = nextIteration(NoPause(warm)).warm
  /\ UNCHANGED calls
  /\ WarmUnchanged

\* head of the search loop for the locals w: the next search call, or the end
\* of the activity
SearchLoopHead(w) ==
  IF w.searched < w.searchCount
  THEN /\ \E query \in randomChoice(opcfg.activities.search.queries) :
            calls' = Append(calls, Call(i, "search", query, 0))
       /\ warm' = Log(w, "search")
       /\ upc' = "searchCall"
  ELSE /\ upc' = "done"
       /\ warm' = w
       /\ UNCHANGED calls

performSearch ==
  /\ op = "warm" /\ mpc = "work" /\ upc = "search"
  /\ LET activity == opcfg.activities.search IN
     IF ~ActivityEnabled(activity)
     THEN /\ upc' = "done"
          /\ UNCHANGED <<calls, warm>>
     ELSE \E searchCount \in randomInt(OrDefault(activity.minSearches, 1),
                                       OrDefault(activity.maxSearches, 3)) :
            SearchLoopHead([warm EXCEPT !.searchCount = searchCount, !.searched = 0])
  /\ WarmUnchanged

\* catch block of a search call: a warning
searchCatch(w) == Log(w, "searchFailed")

\* the search call resolved: the typing delay is awaited
SearchOk ==
  /\ op = "warm" /\ mpc = "work" /\ upc = "searchCall"
  /\ upc' = "typing"
  /\ warm' = Log(warm, "typing")
  /\ UNCHANGED calls
  /\ WarmUnchanged

SearchFail ==
  /\ op = "warm" /\ mpc = "work" /\ upc = "searchCall"
  /\ \E msg \in ErrMsgs :
       warm' = Log(searchCatch(warm), "typing")
  /\ upc' = "typing"
  /\ UNCHANGED calls
  /\ WarmUnchanged

\* mutant: the pause is awaited after the last search too
PauseAfterEverySearch(w) == TRUE

\* i < searchCount - 1
PauseBetweenSearches(w) == w.searched < w.searchCount - 1

\* a delay of the search iteration elapsed: typing, then browsing, then the
\* pause between searches unless this was the last one
SearchDelay ==
  /\ op = "warm" /\ mpc = "work" /\ upc \in {"typing", "browse", "searchPause"}
  /\ CASE upc = "typing" ->
            /\ upc' = "browse"
            /\ warm' = Log(warm, "browse")
            /\ UNCHANGED calls
       [] upc = "browse" /\ PauseBetweenSearches(warm) ->
            /\ upc' = "searchPause"
            /\ warm' = Log(warm, "searchPause")
            /\ UNCHANGED calls
       [] OTHER -> SearchLoopHead([warm EXCEPT !.searched = @ + 1])
  /\ WarmUnchanged

WarmOk ==
  /\ op = "warm" /\ mpc = "work" /\ upc = "done"
  /\ SettleOk([account |-> Username(i), success |-> TRUE])
  /\ upc' = "none"
  /\ UNCHANGED <<cliVars, amVars, clients, runVars, op, opcfg, opError, videoId, comments,
                 commentId, avatars, bios, unit, warm, calls, gaps>>

WarmDelay == DelayElapsed("warm")

\* ------------------------------------------- ProfileManager.massUpdateProfiles
ImageExts == {".jpg", ".jpeg", ".png", ".gif"}
ToLowerCase(ext) == IF ext = ".PNG" THEN ".png" ELSE ext
IsImage(file) == ToLowerCase(file.ext) \in ImageExts
FileName(file) == file.name
NonEmptyLine(line) == line # ""

loadAvatars(dir) ==
  IF ~dir.ok THEN <<>> ELSE LET images == SelectSeq(dir.files, IsImage)
                         IN [n \in 1..Len(images) |-> FileName(images[n])]

loadBios(file, bioLines) ==
  IF file.ok /\ Len(SelectSeq(file.lines, NonEmptyLine)) > 0
  THEN SelectSeq(file.lines, NonEmptyLine)
  ELSE IF Len(bioLines) > 0 THEN bioLines ELSE <<>>

\* a load of candidates, which belongs to no session
Load(kind) == Call(-1, kind, "", "")

\* a wait of updateProfile for session k
Wait(k, part) == Call(k, "randomDelay", part, "")

\* mutant: both candidate sets are loaded whatever the flags are
LoadsUnconditional(cfg) == <<Load("loadAvatars"), Load("loadBios")>>

\* the loads massUpdateProfiles makes before its loop
LoadsAtEntry(cfg) ==
  (IF cfg.updateAvatar THEN <<Load("loadAvatars")>> ELSE <<>>)
  \o (IF cfg.updateBio THEN <<Load("loadBios")>> ELSE <<>>)

ProfileEntry ==
  /\ op = "profile" /\ mpc = "entry"
  /\ \E dir \in AvatarDirs, file \in BioFiles :
       /\ avatars' = IF opcfg.updateAvatar THEN loadAvatars(dir) ELSE <<>>
       /\ bios' = IF opcfg.updateBio THEN loadBios(file, opcfg.bioLines) ELSE <<>>
  /\ calls' = calls \o LoadsAtEntry(opcfg)
  /\ mpc' = "head"
  /\ UNCHANGED <<cliVars, amVars, clients, runVars, op, opcfg, i, opResults, opError, videoId,
                 comments, commentId, upc, unit, warm, inflight, gaps, thrown>>

\* mutant: the bio update is made without the wait before it
AfterAvatarNoWait(u) ==
  IF opcfg.updateBio /\ ~Falsy(u.bioText) THEN "bio" ELSE "done"

\* updateProfile: where control goes after the avatar part
AfterAvatar(u) ==
  IF opcfg.updateBio /\ ~Falsy(u.bioText) THEN "bioDelay" ELSE "done"

\* mutant: the avatar part runs whenever updateAvatar is set
FirstProfileStepUnchecked(u) ==
  IF opcfg.updateAvatar THEN "avatarDelay" ELSE AfterAvatar(u)

\* updateProfile: its first await
FirstProfileStep(u) ==
  IF opcfg.updateAvatar /\ ~Falsy(u.avatarPath) THEN "avatarDelay" ELSE AfterAvatar(u)

ProfileHead ==
  /\ op = "profile" /\ mpc = "head"
  /\ IF i < N
     THEN /\ StartUnit
          /\ \E avatarPath \in (IF Len(avatars) > 0 THEN randomChoice(avatars) ELSE {""}),
                bioText \in (IF Len(bios) > 0 THEN randomChoice(bios) ELSE {""}) :
               LET u == [avatarPath |-> avatarPath, bioText |-> bioText,
                         avatar |-> Null, bio |-> Null]
               IN unit' = u /\ upc' = FirstProfileStep(u)
          /\ mpc' = "work"
          /\ UNCHANGED <<i, calls, warm>>
     ELSE LoopExit
  /\ UNCHANGED <<cliVars, amVars, clients, runVars, op, opcfg, opResults, opError, videoId,
                 comments, commentId, avatars, bios, gaps, thrown>>

ProfileUnchanged ==
  UNCHANGED <<cliVars, amVars, clients, runVars, op, opcfg, mpc, i, opResults, opError,
              videoId, comments, commentId, avatars, bios, inflight, gaps, thrown>>

\* the wait before the avatar update elapsed: updateAvatar reads the image file
ProfileAvatarDelay ==
  /\ op = "profile" /\ mpc = "work" /\ upc = "avatarDelay"
  /\ upc' = "readAvatar"
  /\ calls' = Append(calls, Wait(i, "avatar"))
  /\ UNCHANGED <<unit, warm>>
  /\ ProfileUnchanged

\* the image was read: client.uploadAvatar is called
ProfileReadAvatar ==
  /\ op = "profile" /\ mpc = "work" /\ upc = "readAvatar"
  /\ calls' = Append(calls, Call(i, "uploadAvatar", unit.avatarPath, ""))
  /\ upc' = "uploadAvatar"
  /\ UNCHANGED <<unit, warm>>
  /\ ProfileUnchanged

ProfileUploadOk ==
  /\ op = "profile" /\ mpc = "work" /\ upc = "uploadAvatar"
  /\ upc' = AfterAvatar(unit)
  /\ unit' = [unit EXCEPT !.avatar = uploadAvatar(clients[i + 1], unit.avatarPath)]
  /\ UNCHANGED <<calls, warm>>
  /\ ProfileUnchanged

\* the wait before the bio update elapsed: client.updateProfile is called
ProfileBioDelay ==
  /\ op = "profile" /\ mpc = "work" /\ upc = "bioDelay"
  /\ calls' = calls \o <<Wait(i, "bio"), Call(i, "updateProfile", "bio", unit.bioText)>>
  /\ upc' = "bio"
  /\ UNCHANGED <<unit, warm>>
  /\ ProfileUnchanged

ProfileBioOk ==
  /\ op = "profile" /\ mpc = "work" /\ upc = "bio"
  /\ upc' = "done"
  /\ unit' = [unit EXCEPT !.bio = updateProfile(clients[i + 1], [bio |-> unit.bioText])]
  /\ UNCHANGED <<calls, warm>>
  /\ ProfileUnchanged

ProfileOk ==
  /\ op = "profile" /\ mpc = "work" /\ upc = "done"
  /\ SettleOk([account |-> Username(i), success |-> TRUE,
               result |-> [avatar |-> unit.avatar, bio |-> unit.bio]])
  /\ upc' = "none"
  /\ UNCHANGED <<cliVars, amVars, clients, runVars, op, opcfg, opError, videoId, comments,
                 commentId, avatars, bios, unit, warm, calls, gaps>>

\* the file read, the upload or the bio update rejected: updateAvatar/updateBio
\* and updateProfile rethrow, massUpdateProfiles catches
ProfileFail ==
  /\ op = "profile" /\ mpc = "work"
  /\ upc \in {"readAvatar", "uploadAvatar", "bio"}
  /\ \E msg \in ErrMsgs : SettleFail(msg)
  /\ upc' = "none"
  /\ UNCHANGED <<cliVars, amVars, clients, runVars, op, opcfg, opError, videoId, comments,
                 commentId, avatars, bios, unit, warm, calls, gaps>>

ProfileDelay == DelayElapsed("profile")

MassNext ==
  \/ WarmEntry \/ WarmHead \/ WarmSessionDelay \/ performScrolling
  \/ executeScrollPattern \/ performVideoWatching \/ FeedOk \/ FeedFail \/ WatchStep
  \/ performSearch \/ SearchOk \/ SearchFail \/ SearchDelay \/ WarmOk \/ WarmDelay
  \/ ProfileEntry \/ ProfileHead \/ ProfileAvatarDelay \/ ProfileReadAvatar
  \/ ProfileUploadOk \/ ProfileBioDelay \/ ProfileBioOk \/ ProfileOk
  \/ ProfileFail \/ ProfileDelay
  \/ CommentEntry \/ CommentHead \/ CommentOk \/ CommentFail \/ CommentDelay
  \/ LikeEntry \/ LikeHead \/ LikeOk \/ LikeFail \/ LikeDelay

\* a mass operation called directly, as the static library function it is
MassInit ==
  /\ cli = "lib" /\ exitCode = -1 /\ fatal = NoError /\ config = NoConfig
  /\ accounts = <<>> /\ ret = NoRet
  /\ clients \in ClientLists
  /\ RunIdle
  /\ \/ op = "warm" /\ opcfg \in WarmingInputs
     \/ op = "profile" /\ opcfg \in ProfileInputs
     \/ op = "comment" /\ opcfg \in CommentingInputs
     \/ op = "like" /\ opcfg \in LikingInputs
  /\ mpc = "entry" /\ i = 0
  /\ opResults = <<>> /\ opError = NoError
  /\ videoId = NoId /\ comments = <<>> /\ commentId = ""
  /\ avatars = <<>> /\ bios = <<>> /\ upc = "none" /\ unit = NoUnit /\ warm = NoWarm
  /\ inflight = {} /\ calls = <<>> /\ gaps = {} /\ thrown = <<>>

SpecMass == MassInit /\ [][MassNext]_vars

\* ------------------------------------------------- AccountWarmer.initialize
\* mutant: the empty-list test is missing
NoValidAccountsUnchecked(validAccounts) == FALSE

NoValidAccounts(validAccounts) == Len(validAccounts) = 0

initialize ==
  /\ cli = "new"
  /\ \E file \in ConfigFiles :
       IF ~file.readable
       THEN \* loadConfig: readFile or JSON.parse threw
            /\ cli' = "initThrew" /\ fatal' = ErrLoadConfig
            /\ UNCHANGED <<config, accounts, clients>>
       ELSE LET loaded == IF file.hasAccounts THEN file.accounts ELSE <<>>
                validAccounts == getValidAccounts(loaded)
            IN /\ config' = file
               /\ accounts' = loaded
               /\ IF NoValidAccounts(validAccounts)
                  THEN /\ cli' = "initThrew" /\ fatal' = ErrNoAccounts
                       /\ UNCHANGED clients
                  ELSE /\ clients' = createClients(validAccounts)
                       /\ cli' = "initialized"
                       /\ UNCHANGED fatal
  /\ UNCHANGED <<exitCode, ret, runVars, opVars>>

\* ------------------------------------------------------ AccountWarmer.runAll
\* mutant: profile updates are run before warming
PhaseOrderProfileFirst == <<"profile", "warm", "comment", "like">>

PhaseOrder == <<"warm", "profile", "comment", "like">>
LastPhase == Len(PhaseOrder)

Slot(name) ==
  CASE name = "warm" -> "warming"
    [] name = "profile" -> "profileUpdates"
    [] name = "comment" -> "massCommenting"
    [] name = "like" -> "massCommentLiking"

\* mutant: runAll enters every phase and leaves the test to the phase's runner
PhaseEnabledAlways(cfg, name) == TRUE

\* the isFeatureEnabled test runAll makes for a phase
PhaseEnabled(cfg, name) ==
  CASE name = "warm" -> isFeatureEnabled(cfg, "warming", "")
    [] name = "profile" -> isFeatureEnabled(cfg, "profile", "")
    [] name = "comment" -> isFeatureEnabled(cfg, "massActions", "commenting")
    [] name = "like" -> isFeatureEnabled(cfg, "massActions", "commentLiking")

\* the section runWarming / runProfileUpdates / runMassCommenting /
\* runMassCommentLiking reads and hands to the mass operation
PhaseConfig(cfg, name) ==
  CASE name = "warm" -> getConfigSection(cfg, "warming")
    [] name = "profile" -> getConfigSection(cfg, "profile")
    [] name = "comment" -> getConfigSection(cfg, "massActions").commenting
    [] name = "like" -> getConfigSection(cfg, "massActions").commentLiking

runAllCall ==
  /\ cli = "initialized" /\ rpc = "idle"
  /\ rpc' = "check" /\ phase' = 1 /\ results' = NoResults
  /\ UNCHANGED <<cliVars, amVars, clients, delivered, phaseLog, phaseDelays, opVars>>

PhaseSkip ==
  /\ rpc = "check" /\ phase <= LastPhase
  /\ ~PhaseEnabled(config, PhaseOrder[phase])
  /\ phase' = phase + 1
  /\ UNCHANGED <<cliVars, amVars, clients, rpc, results, delivered, phaseLog, phaseDelays,
                 opVars>>

\* runWarming and its three siblings: test the section's enabled flag again,
\* then call the mass operation with this.clients
RunPhase(name) ==
  LET section == PhaseConfig(config, name) IN
  IF section.present /\ section.enabled
  THEN /\ CallOp(name, section)
       /\ rpc' = "call"
       /\ phaseLog' = Append(phaseLog, name)
       /\ UNCHANGED <<phase, results>>
  ELSE /\ rpc' = "check"
       /\ phase' = phase + 1
       /\ UNCHANGED <<results, phaseLog, opVars>>

\* an enabled phase: the first runs at once, the others after randomDelay(5000, 10000)
PhaseStart ==
  /\ rpc = "check" /\ phase <= LastPhase
  /\ PhaseEnabled(config, PhaseOrder[phase])
  /\ IF phase = 1
     THEN RunPhase(PhaseOrder[phase])
     ELSE /\ rpc' = "delay"
          /\ UNCHANGED <<phase, results, phaseLog, opVars>>
  /\ UNCHANGED <<cliVars, amVars, clients, delivered, phaseDelays>>

PhaseDelayElapsed ==
  /\ rpc = "delay"
  /\ phaseDelays' = phaseDelays + 1
  /\ RunPhase(PhaseOrder[phase])
  /\ UNCHANGED <<cliVars, amVars, clients, delivered>>

\* the mass operation returned: its report goes into the phase's slot
PhaseReturn ==
  /\ rpc = "call" /\ mpc = "returned"
  /\ results' = [results EXCEPT ![Slot(PhaseOrder[phase])] = Report(opResults)]
  /\ phase' = phase + 1
  /\ rpc' = "check"
  /\ LeaveOp
  /\ UNCHANGED <<cliVars, amVars, clients, delivered, phaseLog, phaseDelays>>

\* the mass operation threw: runAll's catch logs the error and rethrows it;
\* the local results object is handed to no one
PhaseThrow ==
  /\ rpc = "call" /\ mpc = "threw"
  /\ rpc' = "threw"
  /\ fatal' = opError
  /\ LeaveOp
  /\ UNCHANGED <<cli, exitCode, config, amVars, clients, phase, results, delivered,
                 phaseLog, phaseDelays>>

runAllReturn ==
  /\ rpc = "check" /\ phase = LastPhase + 1
  /\ rpc' = "returned"
  /\ delivered' = results
  /\ UNCHANGED <<cliVars, amVars, clients, phase, results, phaseLog, phaseDelays, opVars>>

\* ---------------------------------------------------------- CLI entry point
\* runAll returned: displaySummary(results), then process.exit(0)
CliExitOk ==
  /\ cli = "initialized" /\ rpc = "returned"
  /\ cli' = "exited" /\ exitCode' = 0
  /\ UNCHANGED <<fatal, config, amVars, clients, runVars, opVars>>

\* mutant: the catch block logs the error and exits with 0
CliExitFatalCodeZero ==
  /\ \/ cli = "initThrew"
     \/ cli = "initialized" /\ rpc = "threw"
  /\ cli' = "exited" /\ exitCode' = 0
  /\ UNCHANGED <<fatal, config, amVars, clients, runVars, opVars>>

\* the catch block: process.exit(1)
CliExitFatal ==
  /\ \/ cli = "initThrew"
     \/ cli = "initialized" /\ rpc = "threw"
  /\ cli' = "exited" /\ exitCode' = 1
  /\ UNCHANGED <<fatal, config, amVars, clients, runVars, opVars>>

Init ==
  /\ cli = "new" /\ exitCode = -1 /\ fatal = NoError /\ config = NoConfig
  /\ accounts = <<>> /\ ret = NoRet
  /\ clients = <<>>
  /\ RunIdle
  /\ OpIdle

Next ==
  \/ initialize \/ runAllCall \/ PhaseSkip \/ PhaseStart \/ PhaseDelayElapsed
  \/ PhaseReturn \/ PhaseThrow \/ runAllReturn \/ CliExitOk \/ CliExitFatal
  \/ MassNext

Spec == Init /\ [][Next]_vars

\* the run under the scheduling of the event loop: a timer that was set fires
\* and a call that was issued settles, so a step that can be taken is taken
SpecLive == Spec /\ WF_vars(Next)

\* ------------------------------------------ AccountManager called as a library
\* account lists an AccountManager may hold, and the arguments of updateAccount
SampleAccounts == {ValidAccount(1), TwinAccount, GhostAccount, CookieAccount}
AccountLists ==
  UNION {[1..n -> SampleAccounts] : n \in 0..MaxAccounts}
UpdateNames == {Names[1], "ghost", "nobody"}
UpdateSamples ==
  {[sessionId |-> "sid2"],
   [userAgent |-> "", note |-> "warmed"],
   [username |-> "ghost"]}

\* this.accounts.findIndex(acc => acc.username === username), 1-based; 0 for -1
findIndex(accs, username) ==
  IF \E k \in 1..Len(accs) : accs[k].username = username
  THEN CHOOSE k \in 1..Len(accs) :
         /\ accs[k].username = username
         /\ \A j \in 1..(k - 1) : accs[j].username # username
  ELSE 0

\* mutant: the spread is written the other way round, the stored fields win
SpreadStoredWins(account, updates) ==
  [f \in (DOMAIN account) \cup (DOMAIN updates) |->
     IF f \in DOMAIN account THEN account[f] ELSE updates[f]]

\* { ...account, ...updates }
Spread(account, updates) ==
  [f \in (DOMAIN account) \cup (DOMAIN updates) |->
     IF f \in DOMAIN updates THEN updates[f] ELSE account[f]]

Called(fn) == [NoRet EXCEPT !.n = ret.n + 1, !.fn = fn, !.before = accounts]

validateAccountCall ==
  /\ cli = "lib" /\ op = "none" /\ ret.n < MaxCalls
  /\ \E k \in 1..Len(accounts) :
       ret' = [Called("validateAccount") EXCEPT
                 !.index = k, !.value = validateAccount(accounts[k])]
  /\ UNCHANGED <<cliVars, accounts, clients, runVars, opVars>>

getValidAccountsCall ==
  /\ cli = "lib" /\ op = "none" /\ ret.n < MaxCalls
  /\ ret' = [Called("getValidAccounts") EXCEPT !.list = getValidAccounts(accounts)]
  /\ UNCHANGED <<cliVars, accounts, clients, runVars, opVars>>

updateAccount ==
  /\ cli = "lib" /\ op = "none" /\ ret.n < MaxCalls
  /\ \E username \in UpdateNames, updates \in UpdateSamples :
       LET accountIndex == findIndex(accounts, username)
           call == [Called("updateAccount") EXCEPT
                      !.username = username, !.updates = updates]
       IN IF accountIndex = 0
          THEN /\ ret' = [call EXCEPT !.value = FALSE]
               /\ UNCHANGED accounts
          ELSE /\ accounts' = [accounts EXCEPT
                                 ![accountIndex] = Spread(@, updates)]
               /\ ret' = [call EXCEPT !.index = accountIndex, !.value = TRUE]
  /\ UNCHANGED <<cliVars, clients, runVars, opVars>>

AccountsInit ==
  /\ cli = "lib" /\ exitCode = -1 /\ fatal = NoError /\ config = NoConfig
  /\ accounts \in AccountLists /\ ret = NoRet
  /\ clients = <<>>
  /\ RunIdle
  /\ OpIdle

AccountsNext == validateAccountCall \/ getValidAccountsCall \/ updateAccount

SpecAccounts == AccountsInit /\ [][AccountsNext]_vars

\* ------------------- getValidAccounts on the entries a configuration can hold
\* an entry of the accounts list with no fields at all, and a null entry
EmptyEntry == Account("", "", "")
NullEntry == [null |-> TRUE]
EntrySamples == {ValidAccount(1), ValidAccount(2), GhostAccount, EmptyEntry, NullEntry}
EntryLists == UNION {[1..n -> EntrySamples] : n \in 0..MaxAccounts}

\* validateAccount reads account[field]: a TypeError when account is null
validateAccountThrows(account) == account = NullEntry

\* Array.prototype.filter lets the exception of its callback through
getValidAccountsThrows(accs) ==
  \E n \in 1..Len(accs) : validateAccountThrows(accs[n])

Outcome(fn, k, threw, value, list) ==
  [fn |-> fn, index |-> k, before |-> accounts, threw |-> threw,
   error |-> IF threw THEN ErrNullEntry ELSE NoError, value |-> value, list |-> list]

validateEntryCall ==
  /\ cli = "lib" /\ op = "none" /\ ret = NoRet
  /\ \E k \in 1..Len(accounts) :
       ret' = IF validateAccountThrows(accounts[k])
              THEN Outcome("validateAccount", k, TRUE, FALSE, <<>>)
              ELSE Outcome("validateAccount", k, FALSE, validateAccount(accounts[k]), <<>>)
  /\ UNCHANGED <<cliVars, accounts, clients, runVars, opVars>>

getValidEntriesCall ==
  /\ cli = "lib" /\ op = "none" /\ ret = NoRet
  /\ ret' = IF getValidAccountsThrows(accounts)
            THEN Outcome("getValidAccounts", 0, TRUE, FALSE, <<>>)
            ELSE Outcome("getValidAccounts", 0, FALSE, FALSE, getValidAccounts(accounts))
  /\ UNCHANGED <<cliVars, accounts, clients, runVars, opVars>>

EntriesInit ==
  /\ cli = "lib" /\ exitCode = -1 /\ fatal = NoError /\ config = NoConfig
  /\ accounts \in EntryLists /\ ret = NoRet
  /\ clients = <<>>
  /\ RunIdle
  /\ OpIdle

EntriesNext == validateEntryCall \/ getValidEntriesCall

SpecEntries == EntriesInit /\ [][EntriesNext]_vars

\* ------------------------------------- humanization called as a library
\* arguments of the calls
IntSamples == (0 - MaxInt)..MaxInt
Items == <<"a", "b", "a", "c", "b", "d">>
ItemLists == {SubSeq(Items, 1, m) : m \in 0..MaxItems}
Durations == 0..MaxDuration
Percents == 0..10

\* one call is followed per behaviour: the functions keep no state
NoCallYet == cli = "lib" /\ op = "none" /\ ret = NoRet

\* the function returned value on the draw(s) r; no function of
\* humanization.js has a throw statement.  after is what the caller's
\* arguments hold once the call is over.
Returned(fn, args, r, value) ==
  [fn |-> fn, args |-> args, after |-> args, draw |-> r, value |-> value,
   threw |-> FALSE]

randomIntCall ==
  /\ NoCallYet
  /\ \E min \in IntSamples, max \in IntSamples, r \in Random :
       ret' = Returned("randomInt", <<min, max>>, r, randomIntOn(min, max, r))
  /\ UNCHANGED <<cliVars, accounts, clients, runVars, opVars>>

randomDelayCall ==
  /\ NoCallYet
  /\ \E min \in IntSamples, max \in IntSamples, r \in Random :
       ret' = Returned("randomDelay", <<min, max>>, r, randomDelay(min, max, r))
  /\ UNCHANGED <<cliVars, accounts, clients, runVars, opVars>>

randomChoiceCall ==
  /\ NoCallYet
  /\ \E array \in ItemLists, r \in Random :
       ret' = Returned("randomChoice", array, r, randomChoiceOn(array, r))
  /\ UNCHANGED <<cliVars, accounts, clients, runVars, opVars>>

\* the swaps are made in the copy [...array]
shuffleArrayCall ==
  /\ NoCallYet
  /\ \E array \in ItemLists :
       \E draws \in DrawSets(Len(array)) :
         ret' = Returned("shuffleArray", array, draws, shuffleArray(array, draws))
  /\ UNCHANGED <<cliVars, accounts, clients, runVars, opVars>>

generateWatchTimeCall ==
  /\ NoCallYet
  /\ \E videoDuration \in Durations, minWatchPercent \in Percents,
        maxWatchPercent \in Percents, r \in Random :
       ret' = Returned("generateWatchTime",
                       <<videoDuration, minWatchPercent, maxWatchPercent>>, r,
                       generateWatchTime(videoDuration, minWatchPercent,
                                         maxWatchPercent, r))
  /\ UNCHANGED <<cliVars, accounts, clients, runVars, opVars>>

\* arguments of generateScrollPattern
ScrollCounts == {0, 1, 2}
ScrollSpeeds == {<<1000, 3000>>, <<2000, 2000>>}

\* generateScrollPattern returned its pattern, which is handed to
\* executeScrollPattern: pending are the steps its loop has yet to take,
\* waited the steps whose delay it has awaited
generateScrollPatternCall ==
  /\ NoCallYet
  /\ \E scrollCount \in ScrollCounts, speeds \in ScrollSpeeds :
       \E draws \in [1..scrollCount -> StepDraws] :
         LET pattern ==
               scrollPatternFrom(1, scrollCount, speeds[1], speeds[2], draws)
         IN ret' = [fn |-> "generateScrollPattern",
                    args |-> <<scrollCount, speeds[1], speeds[2]>>,
                    value |-> pattern, pending |-> pattern, waited |-> <<>>,
                    threw |-> FALSE]
  /\ UNCHANGED <<cliVars, accounts, clients, runVars, opVars>>

\* executeScrollPattern: the delay of the next step elapsed
executeScrollPatternStep ==
  /\ cli = "lib" /\ op = "none"
  /\ ret.fn = "generateScrollPattern" /\ ret.pending # <<>>
  /\ ret' = [ret EXCEPT !.pending = Tail(@),
                        !.waited = Append(@, Head(ret.pending))]
  /\ UNCHANGED <<cliVars, accounts, clients, runVars, opVars>>

HumanizationInit ==
  /\ cli = "lib" /\ exitCode = -1 /\ fatal = NoError /\ config = NoConfig
  /\ accounts = <<>> /\ ret = NoRet
  /\ clients = <<>>
  /\ RunIdle
  /\ OpIdle

HumanizationNext ==
  \/ randomIntCall \/ randomDelayCall \/ randomChoiceCall \/ shuffleArrayCall
  \/ generateWatchTimeCall \/ generateScrollPatternCall \/ executeScrollPatternStep

SpecHumanization == HumanizationInit /\ [][HumanizationNext]_vars

\* ------------------------------------- TikTokClient called as a library
\* accounts the clients are constructed from: credentials given as fields and
\* in the cookie map, in the cookie map only, without a cookie map, with an
\* empty-valued cookie, and none at all
FieldsAndCookies ==
  [Account("alice", "sidA", "UA-A") EXCEPT
     !.msToken = "tokA",
     !.cookies = << <<"tt_webid", "w1">>, <<"sessionid", "sidX">>,
                    <<"msToken", "tokX">>, <<"lang", "en">> >>]
CookiesOnly ==
  [Account("bob", "", "UA-B") EXCEPT
     !.cookies = << <<"lang", "de">>, <<"msToken", "tokB">>,
                    <<"sessionid", "sidB">> >>]
FieldsOnly == Account("carol", "sidC", "UA-C")
EmptyCookie ==
  [Account("dave", "sidD", "UA-D") EXCEPT
     !.cookies = << <<"lang", "">>, <<"tt_webid", "w4">> >>]
NoCredentials == Account("erin", "", "UA-E")
FacadeAccounts == {FieldsAndCookies, CookiesOnly, FieldsOnly, EmptyCookie, NoCredentials}

\* arguments of the calls; NoId and "" stand for an argument that is not given
FacadeVideoIds == {NoId, <<"7", "7">>}
FacadeTexts == {"", "nice"}
FacadeIds == {"", "c42"}
FacadeActions == {0, 1}
FacadeBodies == {Null, "payload"}

\* client k's method fn returned value; makeRequest builds the descriptor
\* and returns it, and no facade method tests its arguments or throws
Resolved(fn, k, args, value) ==
  [fn |-> fn, index |-> k, args |-> args, value |-> value, threw |-> FALSE]

getCookieStringCall ==
  /\ NoCallYet
  /\ \E k \in 1..N :
       ret' = Resolved("getCookieString", k, <<>>, getCookieString(clients[k]))
  /\ UNCHANGED <<cliVars, accounts, clients, runVars, opVars>>

getUserProfileCall ==
  /\ NoCallYet
  /\ \E k \in 1..N, username \in FacadeIds :
       ret' = Resolved("getUserProfile", k, <<username>>,
                       getUserProfile(clients[k], username))
  /\ UNCHANGED <<cliVars, accounts, clients, runVars, opVars>>

postCommentCall ==
  /\ NoCallYet
  /\ \E k \in 1..N, vid \in FacadeVideoIds, text \in FacadeTexts :
       ret' = Resolved("postComment", k, <<vid, text>>,
                       postComment(clients[k], vid, text))
  /\ UNCHANGED <<cliVars, accounts, clients, runVars, opVars>>

likeCommentCall ==
  /\ NoCallYet
  /\ \E k \in 1..N, cid \in FacadeIds, action \in FacadeActions :
       ret' = Resolved("likeComment", k, <<cid, action>>,
                       likeComment(clients[k], cid, action))
  /\ UNCHANGED <<cliVars, accounts, clients, runVars, opVars>>

likeVideoCall ==
  /\ NoCallYet
  /\ \E k \in 1..N, vid \in FacadeVideoIds, action \in FacadeActions :
       ret' = Resolved("likeVideo", k, <<vid, action>>,
                       likeVideo(clients[k], vid, action))
  /\ UNCHANGED <<cliVars, accounts, clients, runVars, opVars>>

followUserCall ==
  /\ NoCallYet
  /\ \E k \in 1..N, userId \in FacadeIds, action \in FacadeActions :
       ret' = Resolved("followUser", k, <<userId, action>>,
                       followUser(clients[k], userId, action))
  /\ UNCHANGED <<cliVars, accounts, clients, runVars, opVars>>

getCommentsCall ==
  /\ NoCallYet
  /\ \E k \in 1..N, vid \in FacadeVideoIds, cursor \in {0, 20} :
       ret' = Resolved("getComments", k, <<vid, cursor>>,
                       getComments(clients[k], vid, cursor))
  /\ UNCHANGED <<cliVars, accounts, clients, runVars, opVars>>

updateProfileCall ==
  /\ NoCallYet
  /\ \E k \in 1..N, profileData \in FacadeBodies :
       ret' = Resolved("updateProfile", k, <<profileData>>,
                       updateProfile(clients[k], profileData))
  /\ UNCHANGED <<cliVars, accounts, clients, runVars, opVars>>

uploadAvatarCall ==
  /\ NoCallYet
  /\ \E k \in 1..N, imageData \in FacadeBodies :
       ret' = Resolved("uploadAvatar", k, <<imageData>>,
                       uploadAvatar(clients[k], imageData))
  /\ UNCHANGED <<cliVars, accounts, clients, runVars, opVars>>

searchCall ==
  /\ NoCallYet
  /\ \E k \in 1..N, query \in FacadeTexts, offset \in {0, 12} :
       ret' = Resolved("search", k, <<query, offset>>,
                       search(clients[k], query, offset))
  /\ UNCHANGED <<cliVars, accounts, clients, runVars, opVars>>

getFeedCall ==
  /\ NoCallYet
  /\ \E k \in 1..N :
       ret' = Resolved("getFeed", k, <<>>, getFeed(clients[k]))
  /\ UNCHANGED <<cliVars, accounts, clients, runVars, opVars>>

\* two sessions, each with a client of its own
ClientInit ==
  /\ cli = "lib" /\ exitCode = -1 /\ fatal = NoError /\ config = NoConfig
  /\ accounts = <<>> /\ ret = NoRet
  /\ clients \in {<<TikTokClient(p[1]), TikTokClient(p[2])>> :
                      p \in {q \in FacadeAccounts \X FacadeAccounts : q[1] # q[2]}}
  /\ RunIdle
  /\ OpIdle

ClientNext ==
  \/ getCookieStringCall \/ getUserProfileCall \/ postCommentCall
  \/ likeCommentCall \/ likeVideoCall \/ followUserCall \/ getCommentsCall
  \/ updateProfileCall \/ uploadAvatarCall \/ searchCall \/ getFeedCall

SpecClient == ClientInit /\ [][ClientNext]_vars

\* ================================================================== claims
Count(s, x) == Cardinality({n \in 1..Len(s) : s[n] = x})
SameMultiset(s, t) ==
  /\ Len(s) = Len(t)
  /\ \A n \in 1..Len(s) : Count(s, s[n]) = Count(t, s[n])
Failed(n) == ~opResults[n].success
Processed == IF mpc = "delay" THEN i + 1 ELSE i

\* C1: a mass operation over N sessions of which k threw returns N results,
\* N - k of them successful, and every failed entry carries the message of
\* the error its session threw.
C1_FaultIsolatedReport ==
  mpc = "returned" =>
    /\ Len(opResults) = N
    /\ Len(thrown) = N
    /\ Cardinality({n \in 1..N : opResults[n].success})
         = N - Cardinality({n \in 1..N : thrown[n] # NoError})
    /\ \A n \in 1..N : Failed(n) <=> thrown[n] # NoError
    /\ \A n \in 1..N : Failed(n) => opResults[n].error = thrown[n]

C1_Witness ==
  /\ mpc = "returned" /\ N >= 3
  /\ \E a, b, c \in 1..N :
       /\ Failed(a) /\ Failed(b) /\ opResults[a].error # opResults[b].error
       /\ opResults[c].success

\* C2: in every state the results list is a prefix image of the session list:
\* entry n is the Result of input session n, one Result per processed session,
\* whichever sessions failed.
C2_PrefixImage ==
  /\ Len(opResults) <= N
  /\ Len(opResults) = Processed
  /\ \A n \in 1..Len(opResults) :
       opResults[n].account = clients[n].account.username

C2_Witness ==
  /\ Len(opResults) = 3
  /\ opResults[1].success /\ Failed(2) /\ opResults[3].success

\* C3 (as claimed): after a failed session that is not the last, the
\* inter-session delay is awaited before the next session's unit of work begins.
C3_DelayAfterFailure ==
  \A j \in 0..(N - 2) :
    ( /\ Len(opResults) > j
      /\ Failed(j + 1)
      /\ (j + 1 \in inflight \/ Len(opResults) > j + 1) )
    => j \in gaps

\* C4: at most one session has a unit of work in progress, and a session's
\* first action comes only after the Result of the session before it.
C4_StrictlySequential ==
  /\ Cardinality(inflight) <= 1
  /\ \A k \in inflight : mpc = "work" /\ k = i /\ Len(opResults) = k
  /\ \A n \in 1..Len(calls) : calls[n].session <= Len(opResults)
  /\ \A j \in gaps : Len(opResults) > j

C4_Witness ==
  /\ inflight = {2} /\ Len(opResults) = 2 /\ gaps = {0}

\* C9: with m >= 1 comments, session number k (0-based position in the input)
\* posts comments[k % m] of the list as shuffled, whichever sessions failed.
C9_CyclicComment ==
  (op = "comment" /\ mpc \in {"head", "work", "delay", "returned"}
     /\ Len(comments) >= 1) =>
    /\ \A n \in 1..Len(calls) :
         /\ calls[n].session = n - 1
         /\ calls[n].arg = comments[((n - 1) % Len(comments)) + 1]
    /\ \A n \in 1..Len(opResults) :
         opResults[n].success =>
           opResults[n].comment = comments[((n - 1) % Len(comments)) + 1]
    /\ SameMultiset(comments, opcfg.comments)
    /\ (~opcfg.randomizeOrder => comments = opcfg.comments)

C9_Witness ==
  /\ op = "comment" /\ mpc = "returned" /\ N = 3 /\ Len(comments) = 2
  /\ comments # opcfg.comments
  /\ Failed(1) /\ opResults[2].success /\ opResults[3].success
  /\ opResults[3].comment = comments[1]
  /\ opResults[2].comment = comments[2]

\* C10: massComment takes config.videoId when given, else the id in
\* config.videoUrl; with neither it throws before any post, any delay and any
\* result; with an id every session posts to that one id.
C10_VideoIdResolution ==
  op = "comment" =>
    LET want == IF opcfg.videoId # NoId THEN opcfg.videoId
                ELSE extractVideoId(opcfg.videoUrl)
    IN /\ (want = NoId /\ mpc # "entry") =>
            /\ mpc = "threw" /\ opError = ErrNoVideoId
            /\ calls = <<>> /\ gaps = {} /\ opResults = <<>> /\ inflight = {}
       /\ want # NoId =>
            /\ opError # ErrNoVideoId
            /\ \A n \in 1..Len(calls) :
                 calls[n].kind = "postComment" /\ calls[n].target = want
            /\ \A n \in 1..Len(opResults) :
                 opResults[n].success =>
                   opResults[n].result.body.aweme_id = want
            /\ mpc = "returned" =>
                 /\ Len(calls) = N
                 /\ \A k \in 0..(N - 1) : calls[k + 1].session = k

C10_Witness ==
  /\ op = "comment" /\ mpc = "threw" /\ opError = ErrNoVideoId
  /\ opcfg.videoId = NoId /\ opcfg.videoUrl = UrlNoDigits
  /\ N >= 2 /\ Len(opcfg.comments) >= 1

\* the URL is a string (not undefined, not null)
IsString(url) == url \notin {UndefinedUrl, NullUrl}
MarkerIsAt(url, p) ==
  p + 6 <= Len(url) /\ SubSeq(url, p, p + 6) = <<"/", "v", "i", "d", "e", "o", "/">>
IsDigit(c) == c \in {"0", "1", "2", "3", "4", "5", "6", "7", "8", "9"}
SegmentAt(url, p) == MarkerIsAt(url, p) /\ p + 7 <= Len(url) /\ IsDigit(url[p + 7])
HasSegment(url) == IsString(url) /\ \E p \in 1..Len(url) : SegmentAt(url, p)
\* id is the whole run of digits that starts right after the marker at p
IsDigitsAfter(url, p, id) ==
  /\ p + 6 + Len(id) <= Len(url)
  /\ id = SubSeq(url, p + 7, p + 6 + Len(id))
  /\ \A n \in 1..Len(id) : IsDigit(id[n])
  /\ (p + 7 + Len(id) <= Len(url) => ~IsDigit(url[p + 7 + Len(id)]))
\* massComment has resolved its video id from the URL alone
ResolvedFromUrl == op = "comment" /\ mpc # "entry" /\ opcfg.videoId = NoId

\* C11 (as claimed): extractVideoId returns the digits that follow the first
\* occurrence of "/video/" in the URL, and not-found for every input without a
\* "/video/<digits>" segment.
C11_FirstMarker ==
  ResolvedFromUrl =>
    IF HasSegment(opcfg.videoUrl)
    THEN \E p \in 1..Len(opcfg.videoUrl) :
           /\ MarkerIsAt(opcfg.videoUrl, p)
           /\ \A r \in 1..(p - 1) : ~MarkerIsAt(opcfg.videoUrl, r)
           /\ IsDigitsAfter(opcfg.videoUrl, p, videoId)
    ELSE mpc = "threw" /\ opError = ErrNoVideoId /\ videoId = NoId

\* C11 (amended): extractVideoId returns the whole digit run that follows the
\* first occurrence of "/video/" that has a digit right after it, and
\* not-found, without throwing, for every input without such a segment
\* (undefined and null included).
C11_FirstSegment ==
  ResolvedFromUrl =>
    IF HasSegment(opcfg.videoUrl)
    THEN /\ mpc # "threw" /\ videoId # NoId
         /\ \E p \in 1..Len(opcfg.videoUrl) :
              /\ SegmentAt(opcfg.videoUrl, p)
              /\ \A r \in 1..(p - 1) : ~SegmentAt(opcfg.videoUrl, r)
              /\ IsDigitsAfter(opcfg.videoUrl, p, videoId)
    ELSE mpc = "threw" /\ opError = ErrNoVideoId /\ videoId = NoId

C11_Witness ==
  /\ ResolvedFromUrl /\ opcfg.videoUrl = UrlTwoMarkers
  /\ videoId = <<"4", "5">> /\ mpc = "returned" /\ N >= 1

\* C12: massLikeComment throws before any like when config.commentId is
\* missing; otherwise every session, in input order, issues exactly one
\* likeComment with action 1 on the configured comment id and on no other.
C12_OneLikePerSession ==
  (op = "like" /\ mpc # "entry") =>
    IF opcfg.commentId = ""
    THEN /\ mpc = "threw" /\ opError = "No comment ID provided"
         /\ calls = <<>> /\ opResults = <<>> /\ gaps = {} /\ inflight = {}
    ELSE /\ mpc # "threw"
         /\ Len(calls) = Len(opResults) + Cardinality(inflight)
         /\ \A n \in 1..Len(calls) :
              calls[n] = [session |-> n - 1, kind |-> "likeComment",
                          target |-> opcfg.commentId, arg |-> 1]
         /\ \A n \in 1..Len(opResults) :
              opResults[n].success =>
                /\ opResults[n].result.url.path = "/comment/digg/"
                /\ opResults[n].result.url.query =
                     << <<"comment_id", opcfg.commentId>>, <<"action", 1>> >>
         /\ mpc = "returned" => Len(calls) = N

C12_Witness ==
  /\ op = "like" /\ mpc = "returned" /\ N = 3 /\ opcfg.commentId = "c7"
  /\ Failed(2) /\ opResults[1].success /\ opResults[3].success

\* every session processed so far succeeded
AllSucceeded == \A n \in 1..Len(opResults) : opResults[n].success

\* C13: while every session succeeds, an inter-session delay has been awaited
\* after each session that has a successor already started, and after no
\* other; at return that is N - 1 delays, none after the last session, and
\* none at all when N = 1.
C13_DelaysBetweenSessions ==
  AllSucceeded =>
    /\ gaps = {j \in 0..(N - 2) : j < i}
    /\ mpc = "delay" => i < N - 1 /\ Len(opResults) = i + 1
    /\ mpc = "returned" => Cardinality(gaps) = (IF N = 0 THEN 0 ELSE N - 1)

C13_Witness ==
  /\ mpc = "returned" /\ N = 3 /\ AllSucceeded /\ gaps = {0, 1}

\* --- warming sessions
ScrollEvents == {"scroll", "pause"}
WatchEvents == {"getFeed", "feedFailed", "watch"}
SearchEvents == {"search", "searchFailed", "typing", "browse", "searchPause"}
\* the step of performWarmingSession an event belongs to
Stage(event) ==
  CASE event = "initialDelay" -> 0
    [] event \in ScrollEvents -> 1
    [] event = "delay1" -> 2
    [] event \in WatchEvents -> 3
    [] event = "delay2" -> 4
    [] event \in SearchEvents -> 5
Seen(events) == \E n \in 1..Len(warm.trail) : warm.trail[n] \in events
CountOf(event) == Cardinality({n \in 1..Len(warm.trail) : warm.trail[n] = event})
CallsOf(kind) == {n \in 1..Len(calls) : calls[n].kind = kind}
\* the session whose trail warm holds has run to its end
SessionOver == op = "warm" /\ warm.trail # <<>> /\ upc \in {"done", "none"}
Activities == opcfg.activities

\* C15: a warming session runs scroll, delay, videoWatch, delay, search in
\* that order: nothing of videoWatch happens before scrolling has finished and
\* the delay after it was awaited, nothing of search before videoWatch has
\* finished and the second delay was awaited, and each step runs exactly when
\* its own flag is set.
C15_WarmingStepOrder ==
  op = "warm" =>
    /\ \A n \in 1..(Len(warm.trail) - 1) :
         Stage(warm.trail[n]) <= Stage(warm.trail[n + 1])
    /\ CountOf("initialDelay") <= 1 /\ CountOf("delay1") <= 1 /\ CountOf("delay2") <= 1
    /\ Seen(WatchEvents \cup {"delay2"} \cup SearchEvents) =>
         CountOf("delay1") = 1 /\ warm.pattern = <<>>
    /\ Seen(SearchEvents) =>
         /\ CountOf("delay2") = 1
         /\ CountOf("watch") = warm.videoCount /\ warm.watched = warm.videoCount
    /\ i \in inflight =>
         Cardinality({n \in 1..Len(calls) : calls[n].session = i})
           = CountOf("getFeed") + CountOf("search")
    /\ SessionOver =>
         /\ Seen(ScrollEvents) <=> Activities.scroll.enabled
         /\ Seen(WatchEvents) <=> Activities.videoWatch.enabled
         /\ Seen(SearchEvents) <=> Activities.search.enabled

C15_Witness ==
  /\ op = "warm" /\ upc = "done"
  /\ CountOf("pause") >= 1 /\ CountOf("watch") = 2 /\ CountOf("search") = 2

\* C16: a disabled sub-activity issues no client call and awaits none of its
\* own delays; in particular with only scroll enabled no getFeed and no search
\* call is issued for any session, and the report has N entries, all
\* successful.
C16_DisabledActivityIsNoOp ==
  op = "warm" =>
    /\ ~Activities.scroll.enabled =>
         ~Seen(ScrollEvents) /\ upc \notin {"pattern", "scrolling"}
    /\ ~Activities.videoWatch.enabled =>
         /\ CallsOf("getFeed") = {} /\ ~Seen(WatchEvents)
         /\ upc \notin {"feed", "watchWait", "nextWait", "likeWait", "pauseWait"}
    /\ ~Activities.search.enabled =>
         /\ CallsOf("search") = {} /\ ~Seen(SearchEvents)
         /\ upc \notin {"searchCall", "typing", "browse", "searchPause"}
    /\ mpc = "returned" =>
         Len(opResults) = N /\ \A n \in 1..N : opResults[n].success

C16_Witness ==
  /\ op = "warm" /\ mpc = "returned" /\ N = 3
  /\ Activities.scroll.enabled /\ ~Activities.videoWatch.enabled
  /\ ~Activities.search.enabled
  /\ calls = <<>> /\ CountOf("scroll") = 2
  /\ \A n \in 1..3 : opResults[n].success

\* C17: a failed feed fetch and failed search calls are contained: every
\* watch iteration and every search with its delays still runs, and the
\* session's Result is a success.
C17_LocalFailureContained ==
  op = "warm" =>
    /\ \A n \in 1..Len(warm.trail) :
         /\ warm.trail[n] = "feedFailed" =>
              n < Len(warm.trail) /\ warm.trail[n + 1] = "watch"
         /\ warm.trail[n] = "searchFailed" =>
              n < Len(warm.trail) /\ warm.trail[n + 1] = "typing"
    /\ (Activities.videoWatch.enabled /\ Seen({"delay2"})) =>
         warm.videoCount >= 1 /\ CountOf("watch") = warm.videoCount
    /\ (Activities.search.enabled /\ SessionOver) =>
         /\ warm.searchCount >= 1
         /\ CountOf("search") = warm.searchCount
         /\ CountOf("typing") = warm.searchCount
         /\ CountOf("browse") = warm.searchCount
         /\ CountOf("searchPause") = warm.searchCount - 1
    /\ \A n \in 1..Len(opResults) : opResults[n].success
    /\ (SessionOver /\ upc = "none") => Len(opResults) = i + (IF mpc = "delay" THEN 1 ELSE 0)

C17_Witness ==
  /\ op = "warm" /\ mpc = "returned" /\ N >= 2
  /\ CountOf("feedFailed") = 1 /\ CountOf("watch") = 2
  /\ CountOf("search") = 2 /\ CountOf("searchFailed") = 2
  /\ opResults[N].success

\* --- AccountManager
\* the value of cookies.sessionid, "" when there is none
CookieSessionId(account) ==
  IF \E n \in 1..Len(account.cookies) : account.cookies[n][1] = "sessionid"
  THEN account.cookies[CHOOSE n \in 1..Len(account.cookies) :
                         account.cookies[n][1] = "sessionid"][2]
  ELSE ""

\* C18 (as claimed): validateAccount is true exactly when username, userAgent
\* and a session id are present and non-empty, the session id being given as
\* the sessionId field or as cookies.sessionid.
C18_CookieSessionIsValid ==
  ret.fn = "validateAccount" =>
    LET account == ret.before[ret.index] IN
    ret.value <=> /\ account.username # ""
                  /\ account.userAgent # ""
                  /\ (account.sessionId # "" \/ CookieSessionId(account) # "")

\* has the three fields an account must have
Usable(account) ==
  account.username # "" /\ account.sessionId # "" /\ account.userAgent # ""
Configured == IF config.hasAccounts THEN config.accounts ELSE <<>>
UsableAt == {k \in 1..Len(Configured) : Usable(Configured[k])}

\* C19: after initialize the client list holds one client per account of the
\* configuration that has username, sessionId and userAgent, in configuration
\* order and unaltered; an account missing one of them is not in it.
C19_ClientsAreTheValidAccounts ==
  cli = "initialized" =>
    /\ accounts = Configured
    /\ Len(clients) = Cardinality(UsableAt)
    /\ \A k \in UsableAt :
         LET n == Cardinality({j \in UsableAt : j <= k}) IN
           /\ clients[n].account = Configured[k]
           /\ clients[n].userAgent = Configured[k].userAgent
           /\ clients[n].sessionId = Configured[k].sessionId
    /\ \A n \in 1..Len(clients) : Usable(clients[n].account)

C19_Witness ==
  /\ cli = "initialized" /\ Len(Configured) = 5 /\ Len(clients) = 2
  /\ ~Usable(Configured[1]) /\ ~Usable(Configured[3])
  /\ clients[1].account = Configured[2] /\ clients[2].account = Configured[5]

\* C20: updateAccount(name, patch) returns false and changes nothing when no
\* account has that username; otherwise it returns true, the first account
\* with that username becomes the field-wise merge of its old value and the
\* patch, the patch winning, and every other account, the length and the order
\* of the list are unchanged.
C20_UpdateAccountFrame ==
  ret.fn = "updateAccount" =>
    LET hits == {k \in 1..Len(ret.before) : ret.before[k].username = ret.username} IN
    IF hits = {}
    THEN ret.value = FALSE /\ accounts = ret.before
    ELSE LET first == CHOOSE k \in hits : \A j \in hits : k <= j
             old == ret.before[first]
             new == accounts[first]
         IN /\ ret.value = TRUE
            /\ Len(accounts) = Len(ret.before)
            /\ \A k \in 1..Len(accounts) : k # first => accounts[k] = ret.before[k]
            /\ DOMAIN new = (DOMAIN old) \cup (DOMAIN ret.updates)
            /\ \A f \in DOMAIN new :
                 new[f] = IF f \in DOMAIN ret.updates THEN ret.updates[f] ELSE old[f]

C20_Witness ==
  /\ ret.fn = "updateAccount" /\ ret.value = TRUE /\ ret.username = "alice"
  /\ Len(ret.before) = 2
  /\ ret.before[1].username = "alice" /\ ret.before[2].username = "alice"
  /\ ret.before[1] # ret.before[2]
  /\ ret.updates = [userAgent |-> "", note |-> "warmed"]
  /\ accounts[1].userAgent = "" /\ accounts[2] = ret.before[2]

\* the configuration's flag for a phase, read off the configuration file
FlagOn(name) ==
  CASE name = "warm" -> config.warming.present /\ config.warming.enabled
    [] name = "profile" -> config.profile.present /\ config.profile.enabled
    [] name = "comment" ->
         /\ config.massActions.present
         /\ config.massActions.commenting.present
         /\ config.massActions.commenting.enabled
    [] name = "like" ->
         /\ config.massActions.present
         /\ config.massActions.commentLiking.present
         /\ config.massActions.commentLiking.enabled

Rank(name) ==
  CASE name = "warm" -> 1 [] name = "profile" -> 2
    [] name = "comment" -> 3 [] name = "like" -> 4

SlotOf(name) ==
  CASE name = "warm" -> results.warming
    [] name = "profile" -> results.profileUpdates
    [] name = "comment" -> results.massCommenting
    [] name = "like" -> results.massCommentLiking

PhaseNames == {"warm", "profile", "comment", "like"}
Started(name) == \E a \in 1..Len(phaseLog) : phaseLog[a] = name

\* C5: runAll runs the enabled phases in the order Warming, ProfileUpdate,
\* MassComment, MassCommentLike: a phase starts only when every earlier
\* enabled phase has returned its complete report, and none runs twice.
C5_FixedPhaseOrder ==
  /\ \A a, b \in 1..Len(phaseLog) :
       a < b => Rank(phaseLog[a]) < Rank(phaseLog[b])
  /\ \A name \in PhaseNames :
       Started(name) =>
         /\ FlagOn(name)
         /\ \A q \in PhaseNames :
              (FlagOn(q) /\ Rank(q) < Rank(name)) =>
                ~SlotOf(q).isNull /\ Len(SlotOf(q).report) = N
  /\ op # "none" => Len(phaseLog) > 0 /\ phaseLog[Len(phaseLog)] = op
  /\ rpc = "returned" =>
       \A q \in PhaseNames : FlagOn(q) <=> (Started(q) /\ ~SlotOf(q).isNull)

C5_Witness ==
  /\ rpc = "returned"
  /\ phaseLog = <<"warm", "profile", "comment", "like">>
  /\ N = 2

\* C14 (as claimed): inter-phase delays occur only between executed phases:
\* one delay between each pair of consecutively executed phases and none
\* before the first executed phase, whatever the enabled flags.
C14_DelaysOnlyBetweenPhases ==
  /\ rpc = "delay" => Len(phaseLog) >= 1
  /\ phaseDelays = (IF Len(phaseLog) = 0 THEN 0 ELSE Len(phaseLog) - 1)

\* C6 (as claimed): when a phase throws after earlier phases completed, the
\* reports of the completed phases are available to the caller of runAll.
C6_ReportsSurviveAbort ==
  rpc = "threw" =>
    /\ phaseLog[Len(phaseLog)] = PhaseOrder[phase]
    /\ \A q \in PhaseNames :
         ~SlotOf(q).isNull => delivered[Slot(q)] = SlotOf(q)

\* C7: a readable configuration with no valid account makes initialize throw
\* before any client exists and before any phase: no client call, no delay,
\* no report.
EveryAccountInvalid ==
  LET configured == IF config.hasAccounts THEN config.accounts ELSE <<>> IN
  \A n \in 1..Len(configured) :
    \/ configured[n].username = ""
    \/ configured[n].sessionId = ""
    \/ configured[n].userAgent = ""

C7_FailFastWithoutAccounts ==
  (config.readable /\ EveryAccountInvalid) =>
    /\ cli \in {"initThrew", "exited"}
    /\ fatal = ErrNoAccounts
    /\ clients = <<>>
    /\ rpc = "idle" /\ phaseLog = <<>> /\ phaseDelays = 0
    /\ op = "none" /\ calls = <<>> /\ gaps = {} /\ inflight = {}
    /\ results = NoResults /\ delivered = NoResults
    /\ cli = "exited" => exitCode = 1

C7_Witness ==
  /\ cli = "exited" /\ config.readable
  /\ config.accounts = <<GhostAccount>>
  /\ config.warming.enabled

\* C8: the CLI exits with 1 exactly when initialize or runAll threw and with
\* 0 otherwise; per-session failures in the reports never change the code.
FatalConfiguration ==
  \/ ~config.readable
  \/ EveryAccountInvalid
  \/ /\ FlagOn("comment")
     /\ \/ /\ config.massActions.commenting.videoId = NoId
           /\ extractVideoId(config.massActions.commenting.videoUrl) = NoId
        \/ ~config.massActions.commenting.hasComments
  \/ FlagOn("like") /\ config.massActions.commentLiking.commentId = ""

C8_ExitCode ==
  cli = "exited" =>
    /\ exitCode \in {0, 1}
    /\ exitCode = 1 <=> fatal # NoError
    /\ exitCode = 1 <=> FatalConfiguration
    /\ exitCode = 0 <=> rpc = "returned"

AllFailed(slot) ==
  /\ ~slot.isNull /\ Len(slot.report) = N
  /\ \A n \in 1..N : ~slot.report[n].success

C8_Witness ==
  /\ cli = "exited" /\ exitCode = 0 /\ N = 2
  /\ AllFailed(results.profileUpdates)
  /\ AllFailed(results.massCommenting)
  /\ AllFailed(results.massCommentLiking)

\* the last library call was a call of fn
LastCall(fn) == ret.fn = fn

\* C21 (as claimed): randomChoice on an empty list fails with an error instead
\* of returning a value; on a non-empty list it returns an element of the list.
C21_ChoiceFailsOnEmpty ==
  LastCall("randomChoice") =>
    IF Len(ret.args) = 0 THEN ret.threw
    ELSE /\ ~ret.threw
         /\ \E n \in 1..Len(ret.args) : ret.value = ret.args[n]

\* C22: for integers min <= max and every draw, the duration chosen by
\* randomDelay(min, max) and the value of randomInt(min, max) are integers of
\* min..max, and equal to min when min = max.
C22_RandomIntInRange ==
  (LastCall("randomInt") \/ LastCall("randomDelay")) /\ ret.args[1] <= ret.args[2] =>
    /\ ret.value \in Int
    /\ ret.args[1] <= ret.value /\ ret.value <= ret.args[2]
    /\ (ret.args[1] = ret.args[2] => ret.value = ret.args[1])
    /\ ~ret.threw

\* randomInt reached the upper end of a negative-to-positive range
C22_Witness ==
  /\ LastCall("randomInt")
  /\ ret.args[1] < 0 /\ ret.args[2] > 0
  /\ ret.value = ret.args[2]

WatchTimeCall ==
  /\ LastCall("generateWatchTime")
  /\ ret.args[1] >= 0
  /\ 0 <= ret.args[2] /\ ret.args[2] < ret.args[3] /\ ret.args[3] <= 10

\* C24 (as claimed): for d >= 0 and 0 <= lo < hi <= 1, generateWatchTime(d,
\* lo, hi) is an integer r with floor(d * lo) <= r < floor(d * hi).
C24_WatchTimeRange ==
  WatchTimeCall =>
    /\ Floor(ret.args[1] * ret.args[2], 8 * 10) <= ret.value
    /\ ret.value < Floor(ret.args[1] * ret.args[3], 8 * 10)

\* C24 (amended): for a duration of d >= 0 seconds and 0 <= lo < hi <= 1,
\* generateWatchTime(d, lo, hi) is an integer number r of milliseconds with
\* floor(1000 * d * lo) <= r <= floor(1000 * d * hi).
C24_WatchTimeMillis ==
  WatchTimeCall =>
    /\ ret.value \in Int
    /\ Floor(1000 * ret.args[1] * ret.args[2], 8 * 10) <= ret.value
    /\ ret.value <= Floor(1000 * ret.args[1] * ret.args[3], 8 * 10)

\* three eighths of a second watched between 30% and 90%, on a draw that is
\* not the lowest
C24_Witness ==
  /\ WatchTimeCall
  /\ ret.args = <<3, 3, 9>>
  /\ ret.draw > 0
  /\ ret.value > Floor(1000 * 3 * 3, 8 * 10)

\* the client whose method was called last
Caller == clients[ret.index]

\* a cookie entry the claim lists after sessionid and msToken
IsListedCookie(entry) == entry[1] \notin {"sessionid", "msToken"} /\ entry[2] # ""

\* the value of a credential: the account's field, or the cookie of that name
Credential(account, field, cookie) ==
  IF account[field] # "" THEN account[field] ELSE CookieValue(account.cookies, cookie)

\* C25 (as claimed): a session's cookie string consists of exactly the
\* non-empty credential fields in the order sessionid, msToken, then the
\* remaining cookie entries of the account in their original order;
\* sessionid and msToken appear at most once and an empty-valued entry is left
\* out.
C25_CookieString ==
  LastCall("getCookieString") =>
    LET account == Caller.account
        sid == Credential(account, "sessionId", "sessionid")
        tok == Credential(account, "msToken", "msToken")
    IN /\ ret.value =
            (IF sid # "" THEN << <<"sessionid", sid>> >> ELSE <<>>)
            \o (IF tok # "" THEN << <<"msToken", tok>> >> ELSE <<>>)
            \o SelectSeq(account.cookies, IsListedCookie)
       /\ \A n \in 1..Len(ret.value) : ret.value[n][2] # ""
       /\ \A key \in {"sessionid", "msToken"} :
            Cardinality({n \in 1..Len(ret.value) : ret.value[n][1] = key}) <= 1

\* the last call was a call of a method that resolves with a request descriptor
DescriptorCall == ret.fn \notin {"none", "getCookieString"}

\* the query parameters the method called last supplies, in its order
Supplied ==
  CASE ret.fn = "getUserProfile" -> << <<"uniqueId", ret.args[1]>> >>
    [] ret.fn = "postComment" -> << <<"aweme_id", ret.args[1]>> >>
    [] ret.fn = "likeComment" -> << <<"comment_id", ret.args[1]>>, <<"action", ret.args[2]>> >>
    [] ret.fn = "likeVideo" -> << <<"aweme_id", ret.args[1]>>, <<"type", ret.args[2]>> >>
    [] ret.fn = "followUser" -> << <<"user_id", ret.args[1]>>, <<"type", ret.args[2]>> >>
    [] ret.fn = "getComments" ->
         << <<"aweme_id", ret.args[1]>>, <<"cursor", ret.args[2]>>, <<"count", 20>> >>
    [] ret.fn = "search" ->
         << <<"keyword", ret.args[1]>>, <<"offset", ret.args[2]>>, <<"count", 12>> >>
    [] ret.fn = "getFeed" -> << <<"count", 30>> >>
    [] OTHER -> <<>>

\* the method called last supplies no body
SuppliesNoBody ==
  \/ ret.fn \in {"getUserProfile", "likeComment", "likeVideo", "followUser",
                  "getComments", "search", "getFeed"}
  \/ ret.fn \in {"updateProfile", "uploadAvatar"} /\ ret.args[1] = Null

\* C26: every request descriptor a client method produces has method GET or
\* POST, the cookie string and the userAgent of the session it was called on,
\* the fixed Referer and Origin, a null body when the method supplies none,
\* and the query parameters in the order the method supplied them; it never
\* has the cookie string or the userAgent of the other session.
C26_DescriptorOfOwnSession ==
  DescriptorCall =>
    /\ ~ret.threw
    /\ ret.value.method \in {"GET", "POST"}
    /\ ret.value.headers.Cookie = getCookieString(Caller)
    /\ ret.value.headers.UserAgent = Caller.account.userAgent
    /\ ret.value.headers.Referer = "https://www.tiktok.com/"
    /\ ret.value.headers.Origin = "https://www.tiktok.com"
    /\ (SuppliesNoBody => ret.value.body = Null)
    /\ ret.value.url.query = Supplied
    /\ \A k \in 1..N :
         /\ getCookieString(clients[k]) # getCookieString(Caller) =>
              ret.value.headers.Cookie # getCookieString(clients[k])
         /\ clients[k].account.userAgent # Caller.account.userAgent =>
              ret.value.headers.UserAgent # clients[k].account.userAgent

\* the second session, whose credentials are in its cookie map, asked for
\* the comments of a video next to a session with other credentials
C26_Witness ==
  /\ LastCall("getComments")
  /\ ret.index = 2
  /\ Caller.account = CookiesOnly
  /\ clients[1].account = FieldsAndCookies
  /\ ret.value.method = "GET"
  /\ ret.value.headers.Cookie[1] = <<"sessionid", "sidB">>
  /\ Len(ret.value.url.query) = 3

\* C27 (as claimed): a facade call whose required parameter is missing
\* (postComment without a video id, likeComment without a comment id) fails
\* with an error and returns no request descriptor.
C27_MissingParameterFails ==
  /\ LastCall("postComment") /\ ret.args[1] = NoId => ret.threw
  /\ LastCall("likeComment") /\ ret.args[1] = "" => ret.threw

\* min <= count <= max
Within(count, min, max) == min <= count /\ count <= max

\* C28 (as claimed): the number of scroll steps, of watch iterations and of
\* search queries of a warming session lies within the configured inclusive
\* range, for every configured 0 <= min <= max, a bound of 0 included.
C28_CountsWithinConfiguredRange ==
  op = "warm" =>
    /\ (Activities.scroll.enabled /\ Seen({"delay1"})) =>
         Within(CountOf("scroll"), Activities.scroll.minScrolls,
                Activities.scroll.maxScrolls)
    /\ (Activities.videoWatch.enabled /\ Seen({"delay2"})) =>
         Within(CountOf("watch"), Activities.videoWatch.minVideos,
                Activities.videoWatch.maxVideos)
    /\ (Activities.search.enabled /\ SessionOver) =>
         Within(CountOf("search"), Activities.search.minSearches,
                Activities.search.maxSearches)

\* C29 (as claimed): in a watch iteration the extra pause is inserted exactly
\* when the draw is below the configured pauseProbability, 0.3 standing in
\* only when none is configured; with a configured 0 no pause is inserted;
\* an inserted pause lasts at least the drawn pause duration.
C29_PauseOnConfiguredProbability ==
  (op = "warm" /\ warm.pauseDraw # NoNumber) =>
    LET configured == opcfg.humanization.pauseProbability
        probability == IF configured = NoNumber THEN 3 ELSE configured
    IN /\ warm.paused <=> 10 * warm.pauseDraw < probability * RandomSteps
       /\ configured = 0 => ~warm.paused
       /\ warm.paused =>
            upc = "pauseWait" /\ warm.pauseDelay >= warm.pauseDuration

\* the calls of a kind issued for the session in progress
SessionCalls(kind) == {n \in CallsOf(kind) : calls[n].session = i}

\* the event after position n of the trail is one of events, if there is one
ThenOnly(n, events) == n < Len(warm.trail) => warm.trail[n + 1] \in events

\* C30: an enabled videoWatch issues exactly one feed fetch, before its first
\* watch iteration; an enabled search issues exactly searchCount search calls,
\* each followed by a typing delay and then a browse delay whether the call
\* failed or not, with searchCount - 1 delays between queries and none after
\* the last query.
C30_FeedOnceSearchesWithDelays ==
  op = "warm" =>
    /\ CountOf("getFeed") <= 1
    /\ \A n \in 1..Len(warm.trail) :
         /\ warm.trail[n] = "watch" =>
              \E m \in 1..(n - 1) : warm.trail[m] = "getFeed"
         /\ warm.trail[n] = "search" => ThenOnly(n, {"searchFailed", "typing"})
         /\ warm.trail[n] = "searchFailed" => ThenOnly(n, {"typing"})
         /\ warm.trail[n] = "typing" =>
              /\ warm.trail[n - 1] \in {"search", "searchFailed"}
              /\ ThenOnly(n, {"browse"})
         /\ warm.trail[n] = "browse" => ThenOnly(n, {"searchPause"})
         /\ warm.trail[n] = "searchPause" => ThenOnly(n, {"search"})
    /\ (Activities.videoWatch.enabled /\ Seen({"delay2"})) => CountOf("getFeed") = 1
    /\ (Activities.videoWatch.enabled /\ upc = "done") =>
         Cardinality(SessionCalls("getFeed")) = 1
    /\ (Activities.search.enabled /\ SessionOver) =>
         /\ CountOf("search") = warm.searchCount
         /\ CountOf("typing") = warm.searchCount
         /\ CountOf("browse") = warm.searchCount
         /\ CountOf("searchPause") = warm.searchCount - 1
         /\ warm.trail[Len(warm.trail)] = "browse"
    /\ (Activities.search.enabled /\ upc = "done") =>
         Cardinality(SessionCalls("search")) = warm.searchCount

\* a session fetched the feed once, watched, and made two searches of which
\* the first failed
C30_Witness ==
  /\ op = "warm" /\ upc = "done" /\ i = 1
  /\ Cardinality(SessionCalls("getFeed")) = 1 /\ CountOf("watch") >= 1
  /\ Cardinality(SessionCalls("search")) = 2
  /\ CountOf("searchFailed") = 1 /\ CountOf("searchPause") = 1
  /\ \E n \in 1..Len(warm.trail) :
       warm.trail[n] = "search" /\ warm.trail[n + 1] = "searchFailed"
         /\ \E m \in (n + 1)..Len(warm.trail) : warm.trail[m] = "search"

\* the steps of the pattern returned by generateScrollPattern
Pattern == ret.value
ScrollSteps == {n \in 1..Len(Pattern) : Pattern[n].action = "scroll"}
PauseSteps == {n \in 1..Len(Pattern) : Pattern[n].action = "pause"}

\* what the claim says of a pattern whatever the speeds are
PatternShape ==
  /\ \A n \in 1..Len(Pattern) : Pattern[n].action \in {"scroll", "pause"}
  /\ Cardinality(ScrollSteps) = ret.args[1]
  /\ \A n \in ScrollSteps : 300 <= Pattern[n].amount /\ Pattern[n].amount < 800
  /\ \A n \in PauseSteps :
       /\ 1000 <= Pattern[n].delay /\ Pattern[n].delay < 5000
       /\ n > 1 /\ Pattern[n - 1].action = "scroll"
  /\ ret.args[1] > 0 => Pattern[1].action = "scroll"
  /\ ret.args[1] <= Len(Pattern) /\ Len(Pattern) <= 2 * ret.args[1]
  /\ ret.waited \o ret.pending = Pattern

\* C31 (as claimed): generateScrollPattern(count, minSpeed, maxSpeed) returns
\* count scroll steps, each with amount in [300,800) and delay in
\* [minSpeed,maxSpeed); every pause has delay in [1000,5000) and follows a
\* scroll step; the length is between count and 2*count; executeScrollPattern
\* consumes the steps once, left to right.
C31_ScrollPattern ==
  LastCall("generateScrollPattern") =>
    /\ PatternShape
    /\ \A n \in ScrollSteps :
         ret.args[2] <= Pattern[n].delay /\ Pattern[n].delay < ret.args[3]

\* C31 (amended): as claimed, with the delay of a scroll step in
\* [minSpeed,maxSpeed) when minSpeed < maxSpeed and equal to minSpeed when
\* minSpeed = maxSpeed.
C31_ScrollPatternSpeeds ==
  LastCall("generateScrollPattern") =>
    /\ PatternShape
    /\ \A n \in ScrollSteps :
         IF ret.args[2] < ret.args[3]
         THEN ret.args[2] <= Pattern[n].delay /\ Pattern[n].delay < ret.args[3]
         ELSE ret.args[2] = ret.args[3] => Pattern[n].delay = ret.args[2]

\* a pattern of two scrolls, the first followed by a pause, was executed to
\* its end, and its second scroll had a delay above minSpeed
C31_Witness ==
  /\ LastCall("generateScrollPattern")
  /\ ret.args = <<2, 1000, 3000>>
  /\ Len(Pattern) = 3 /\ Pattern[2].action = "pause"
  /\ Pattern[3].delay > 1000
  /\ ret.pending = <<>> /\ ret.waited = Pattern

\* the loads of candidates massUpdateProfiles has made so far
Loads(kind) == {n \in CallsOf(kind) : calls[n].session = -1}
Entered == op = "profile" /\ mpc # "entry"

\* C32: in massUpdateProfiles each candidate set (avatars, bios) is loaded at
\* most once per call whatever the number of sessions is, before anything is
\* done for the first session, and only when its flag (updateAvatar,
\* updateBio) is set.
C32_CandidatesLoadedOnce ==
  op = "profile" =>
    /\ Cardinality(Loads("loadAvatars")) <= 1
    /\ Cardinality(Loads("loadBios")) <= 1
    /\ Loads("loadAvatars") # {} => opcfg.updateAvatar
    /\ Loads("loadBios") # {} => opcfg.updateBio
    /\ Entered =>
         /\ opcfg.updateAvatar => Loads("loadAvatars") # {}
         /\ opcfg.updateBio => Loads("loadBios") # {}
    /\ ~opcfg.updateAvatar => avatars = <<>>
    /\ ~opcfg.updateBio => bios = <<>>
    /\ \A n \in Loads("loadAvatars") \cup Loads("loadBios") :
         \A m \in 1..Len(calls) : calls[m].session >= 0 => n < m

\* three sessions were updated after one load of each candidate set
C32_Witness ==
  /\ op = "profile" /\ N = 3 /\ Len(opResults) = 3
  /\ Cardinality(Loads("loadAvatars")) = 1 /\ Cardinality(Loads("loadBios")) = 1
  /\ Cardinality(CallsOf("uploadAvatar")) = 3
  /\ Cardinality(CallsOf("updateProfile")) = 3

\* the calls and waits massUpdateProfiles made for session k, in order
Waits(part) == {n \in CallsOf("randomDelay") : calls[n].target = part}
OfSession(k, positions) == {n \in positions : calls[n].session = k}
Succeeded == {n \in 1..Len(opResults) : opResults[n].success}

\* the payload of the n-th Result holds what the avatar (bio) call of its
\* session returned
AvatarUpdated(n) ==
  \E m \in OfSession(n - 1, CallsOf("uploadAvatar")) :
    opResults[n].result.avatar = uploadAvatar(clients[n], calls[m].target)
BioUpdated(n) ==
  \E m \in OfSession(n - 1, CallsOf("updateProfile")) :
    opResults[n].result.bio = updateProfile(clients[n], [bio |-> calls[m].arg])

\* C33: in massUpdateProfiles, when the list of candidate avatars (resp.
\* bios) is empty or could not be loaded, no uploadAvatar (resp. updateProfile)
\* call and no wait for it is made for any session, the other sub-update is
\* still made, no session fails unless the other sub-update rejects, and the
\* Result of a session is success = true with that part of the payload null.
C33_EmptyCandidatesSkipped ==
  Entered =>
    /\ avatars = <<>> =>
         /\ CallsOf("uploadAvatar") = {} /\ Waits("avatar") = {}
         /\ upc \notin {"avatarDelay", "readAvatar", "uploadAvatar"}
         /\ \A n \in Succeeded : opResults[n].result.avatar = Null
         /\ opcfg.updateBio /\ bios # <<>> =>
              \A n \in 1..Len(opResults) :
                /\ OfSession(n - 1, CallsOf("updateProfile")) # {}
                /\ OfSession(n - 1, Waits("bio")) # {}
                /\ opResults[n].success => BioUpdated(n)
    /\ bios = <<>> =>
         /\ CallsOf("updateProfile") = {} /\ Waits("bio") = {}
         /\ upc \notin {"bioDelay", "bio"}
         /\ \A n \in Succeeded : opResults[n].result.bio = Null
         /\ opcfg.updateAvatar /\ avatars # <<>> =>
              \A n \in 1..Len(opResults) :
                /\ OfSession(n - 1, Waits("avatar")) # {}
                /\ opResults[n].success =>
                     AvatarUpdated(n)
    /\ avatars = <<>> /\ bios = <<>> =>
         \A n \in 1..Len(opResults) :
           /\ opResults[n].account = Username(n - 1) /\ opResults[n].success
           /\ opResults[n].result = [avatar |-> Null, bio |-> Null]

\* updateAvatar and updateBio were both set, the avatar folder held no image,
\* and two sessions had their bio updated and nothing else
C33_Witness ==
  /\ op = "profile" /\ N = 2 /\ Len(opResults) = 2
  /\ opcfg.updateAvatar /\ opcfg.updateBio
  /\ avatars = <<>> /\ bios # <<>>
  /\ Succeeded = {1, 2}
  /\ opResults[1].result.avatar = Null /\ BioUpdated(1)
  /\ Cardinality(CallsOf("updateProfile")) = 2

\* the calls and waits made for session k
Avatar(k) == OfSession(k, CallsOf("uploadAvatar")) \cup OfSession(k, Waits("avatar"))
Bio(k) == OfSession(k, CallsOf("updateProfile")) \cup OfSession(k, Waits("bio"))

\* C34: within one session's profile update the avatar update precedes the
\* bio update and each is preceded by its own wait; the bio update is
\* attempted only when the avatar update was skipped or returned, so not after
\* it threw; a session whose update threw has a single failed Result, and the
\* sessions after it still have their avatar and bio updated.
C34_AvatarThenBio ==
  Entered =>
    /\ \A n \in CallsOf("uploadAvatar") :
         n > 1 /\ calls[n - 1] = Wait(calls[n].session, "avatar")
    /\ \A n \in CallsOf("updateProfile") :
         n > 1 /\ calls[n - 1] = Wait(calls[n].session, "bio")
    /\ \A k \in 0..(N - 1) :
         /\ \A a \in Avatar(k), b \in Bio(k) : a < b
         /\ Cardinality(OfSession(k, CallsOf("uploadAvatar"))) <= 1
         /\ Cardinality(OfSession(k, CallsOf("updateProfile"))) <= 1
    /\ \A n, m \in 1..Len(calls) : n < m => calls[n].session <= calls[m].session
    /\ upc \in {"bioDelay", "bio"} =>
         \/ Avatar(i) = {}
         \/ unit.avatar = uploadAvatar(clients[i + 1], unit.avatarPath)
    /\ Len(opResults) = Processed /\ Len(thrown) = Processed
    /\ \A n \in 1..Len(opResults) :
         /\ opResults[n].account = Username(n - 1)
         /\ Failed(n) <=> thrown[n] # NoError
         /\ Failed(n) => opResults[n] = FailedResult(n - 1, thrown[n])
         /\ Failed(n) /\ OfSession(n - 1, CallsOf("updateProfile")) # {} =>
              \/ Avatar(n - 1) = {}
              \/ OfSession(n - 1, CallsOf("uploadAvatar")) # {}
         /\ ~Failed(n) =>
              /\ opcfg.updateAvatar /\ avatars # <<>> => AvatarUpdated(n)
              /\ opcfg.updateBio /\ bios # <<>> => BioUpdated(n)

\* the avatar upload of the first session threw, no bio update was attempted
\* for it, and the second session had its avatar and then its bio updated
C34_Witness ==
  /\ op = "profile" /\ N = 2 /\ Len(opResults) = 2
  /\ Failed(1) /\ ~Failed(2)
  /\ OfSession(0, CallsOf("uploadAvatar")) # {} /\ Bio(0) = {}
  /\ AvatarUpdated(2) /\ BioUpdated(2)

\* C35: no executor changes its configuration or the session list: no step
\* of a mass operation changes the configuration it was called with, the list
\* of clients or a client's account, so that after massComment returned or
\* threw config.comments is what it was, also when randomizeOrder made the
\* operation post the comments in another order.
C35_InputsNotMutated ==
  [][/\ op' = op => opcfg' = opcfg
     /\ clients' = clients
     /\ op' = "comment" /\ mpc' \in {"head", "work", "delay", "returned"} =>
          /\ SameMultiset(comments', opcfg'.comments)
          /\ ~opcfg'.randomizeOrder => comments' = opcfg'.comments]_vars

\* massComment returned after it worked through a shuffled list whose order
\* is not the order of config.comments
C35_Witness ==
  /\ op = "comment" /\ mpc = "returned" /\ opcfg.randomizeOrder
  /\ Len(opcfg.comments) = 2 /\ comments # opcfg.comments
  /\ Len(opResults) = N /\ N >= 2

\* no name occurs twice in the sequence
NoRepeat(s) == \A n, m \in 1..Len(s) : s[n] = s[m] => n = m

\* C36: every run ends, with AllComplete (exit code 0) or with a fatal error
\* (exit code 1); a mass operation that returns has made exactly N loop
\* iterations, one Result each; runAll visits each of its four phases at most
\* once and in order; no session and no phase is gone back to.
C36_RunTerminates ==
  /\ <>(cli = "exited" /\ exitCode \in {0, 1})
  /\ [](/\ NoRepeat(phaseLog) /\ Len(phaseLog) <= LastPhase
        /\ \A n, m \in 1..Len(phaseLog) :
             n < m => \E a, b \in 1..LastPhase :
                        a < b /\ PhaseOrder[a] = phaseLog[n] /\ PhaseOrder[b] = phaseLog[m]
        /\ op # "none" =>
             /\ i <= N /\ Len(opResults) = Processed
             /\ mpc = "returned" => i = N /\ Len(opResults) = N
             /\ \A n \in 1..Len(opResults) : opResults[n].account = Username(n - 1))
  /\ [][/\ phase' >= phase
        /\ op' = op /\ op # "none" => i' \in {i, i + 1} /\ Len(opResults') >= Len(opResults)]_vars

\* a run went through its four phases and ended with exit code 0
C36_Witness ==
  /\ cli = "exited" /\ exitCode = 0
  /\ phaseLog = PhaseOrder /\ N >= 2

\* C37 (as claimed): getValidAccounts never throws because of an entry of
\* the accounts list: whatever the entries are, entries with no fields and
\* null entries included, it returns the valid entries in their order.
C37_InvalidEntriesFiltered ==
  (LastCall("getValidAccounts") /\ cli = "lib") =>
    /\ ~ret.threw
    /\ \A n \in 1..Len(ret.list) :
         ret.list[n] # NullEntry /\ Usable(ret.list[n])
    /\ Len(ret.list) =
         Cardinality({k \in 1..Len(ret.before) :
                        ret.before[k] # NullEntry /\ Usable(ret.before[k])})

\* the phases after the first one in runAll: each awaits a delay when it runs
Delayed == {q \in PhaseNames \ {PhaseOrder[1]} : Started(q)}

\* C38: a phase whose enabled flag is false or whose section is absent does
\* nothing in runAll: its mass operation is never called, so none of its
\* client calls is issued, no inter-phase delay is awaited for it, and its slot
\* of the results stays null; the enabled phases all run and fill their slots.
C38_DisabledPhaseDoesNothing ==
  /\ \A q \in PhaseNames :
       ~FlagOn(q) =>
         /\ ~Started(q) /\ op # q
         /\ SlotOf(q).isNull /\ delivered[Slot(q)].isNull
         /\ rpc \in {"delay", "call"} => PhaseOrder[phase] # q
  /\ phaseDelays = Cardinality(Delayed)
  /\ rpc = "returned" =>
       \A q \in PhaseNames :
         FlagOn(q) => Started(q) /\ delivered[Slot(q)] = Report(SlotOf(q).report)
                      /\ Len(SlotOf(q).report) = N

\* warming is switched off and no mass action is configured: runAll returned
\* after the profile updates alone, with one delay awaited
C38_Witness ==
  /\ rpc = "returned" /\ N >= 2
  /\ config.warming.present /\ ~config.warming.enabled
  /\ ~config.massActions.present
  /\ phaseLog = <<"profile">> /\ phaseDelays = 1
  /\ results.warming.isNull /\ ~results.profileUpdates.isNull
  /\ results.massCommenting.isNull /\ results.massCommentLiking.isNull

====
